---- MODULE Spec2Model ----
(***************************************************************************)
(* Model of the spending analyzer's core services:                         *)
(*   StoreAnalysisService     (store-name clustering, mappings)            *)
(*   AnalysisService          (filtering, grouping, pagination)            *)
(*   AdvancedAnalyticsService (balances, budget intelligence)              *)
(*                                                                         *)
(* Strings are tuples of one-character strings, so that normalisation,     *)
(* Levenshtein distance, lexical comparison and substring act on the       *)
(* characters as the code's string operations do.  Money is counted in     *)
(* integer cents.                                                          *)
(***************************************************************************)
EXTENDS Integers, Sequences, FiniteSets, TLC

VARIABLES
    transactions,   \* Transaction[] handed to the service (session.data.transactions)
    storeMappings,  \* { [canonicalName]: string[] } as the sequence of <<key, variations>> that Object.entries yields
    filters,        \* AnalysisFilters of the request
    tz,             \* server time zone: local calendar day of UTC midnight minus the UTC day (0 or -1)
    pc,             \* "start" before the entry point is called, then "called", "done"
    out             \* what the entry point returned, tagged with the entry point's name

vars == <<transactions, storeMappings, filters, tz, pc, out>>

----------------------------------------------------------------------------
(* Generic helpers                                                         *)

Range(s) == {s[i] : i \in 1..Len(s)}

Contains(s, x) == \E i \in 1..Len(s) : s[i] = x

Max2(a, b) == IF a >= b THEN a ELSE b

Min2(a, b) == IF a <= b THEN a ELSE b

Abs(x) == IF x < 0 THEN -x ELSE x

RECURSIVE SumSeq(_)
SumSeq(s) == IF s = <<>> THEN 0 ELSE s[1] + SumSeq(Tail(s))

\* the element of a one-element set; The({F(x) : x \in {e}}) computes e once
The(S) == CHOOSE x \in S : TRUE

\* Array.prototype.filter with a predicate given as a set of accepted indices
RECURSIVE FilterIdx(_, _, _)
FilterIdx(s, keep, i) ==
    IF i > Len(s) THEN <<>>
    ELSE (IF i \in keep THEN <<s[i]>> ELSE <<>>) \o FilterIdx(s, keep, i + 1)

\* [...new Set(s)]: the distinct elements in order of first occurrence
RECURSIVE Unique(_, _)
Unique(s, seen) ==
    IF s = <<>> THEN <<>>
    ELSE IF s[1] \in seen THEN Unique(Tail(s), seen)
         ELSE <<s[1]>> \o Unique(Tail(s), seen \cup {s[1]})

\* All sequences over S of length 0..n
SeqUpTo(S, n) == UNION {[1..k -> S] : k \in 0..n}

\* Positions of an insertion-ordered key/value list (Map, or object with string keys)
KeyIndex(m, k) == CHOOSE i \in 1..Len(m) : m[i][1] = k

HasKey(m, k) == \E i \in 1..Len(m) : m[i][1] = k

\* Map.prototype.set / obj[k] = v: overwrite in place, or append a new key
MapSet(m, k, v) ==
    IF HasKey(m, k) THEN [m EXCEPT ![KeyIndex(m, k)] = <<k, v>>]
    ELSE Append(m, <<k, v>>)

MapGet(m, k) == m[KeyIndex(m, k)][2]

\* Array.prototype.sort with a comparator that orders by a number, ascending:
\* keys[i] is the number of s[i].  The sort is stable: an element's place is the
\* count of the elements with a smaller key, or an equal key and an earlier index.
StableSort(s, keys) ==
    LET rank(i) == 1 + Cardinality({j \in 1..Len(s) :
                        \/ keys[j] < keys[i]
                        \/ (keys[j] = keys[i] /\ j < i)})
    IN [k \in 1..Len(s) |-> s[CHOOSE i \in 1..Len(s) : rank(i) = k]]

----------------------------------------------------------------------------
(* Strings                                                                 *)

UpperCase == <<"A","B","C","D","E","F","G","H","I","J","K","L","M",
               "N","O","P","Q","R","S","T","U","V","W","X","Y","Z">>

LowerCase == <<"a","b","c","d","e","f","g","h","i","j","k","l","m",
               "n","o","p","q","r","s","t","u","v","w","x","y","z">>

Digits == <<"0","1","2","3","4","5","6","7","8","9">>

\* String.prototype.toLowerCase, one character
ToLowerChar(c) ==
    IF \E i \in 1..Len(UpperCase) : UpperCase[i] = c
    THEN LowerCase[CHOOSE i \in 1..Len(UpperCase) : UpperCase[i] = c]
    ELSE c

\* the regular expression class [\w\s]: what replace(/[^\w\s]/g, '') keeps
IsWordOrSpace(c) ==
    c \in Range(UpperCase) \cup Range(LowerCase) \cup Range(Digits) \cup {"_", " "}

RECURSIVE StripNonWord(_)
StripNonWord(s) ==
    IF s = <<>> THEN <<>>
    ELSE (IF IsWordOrSpace(s[1]) THEN <<s[1]>> ELSE <<>>) \o StripNonWord(Tail(s))

\* name.toLowerCase().replace(/[^\w\s]/g, '')
Normalize(name) == StripNonWord([i \in 1..Len(name) |-> ToLowerChar(name[i])])

\* a JavaScript string is truthy unless it is empty
Truthy(s) == s # <<>>

----------------------------------------------------------------------------
(* Levenshtein distance (levenshtein.get), row by row                      *)

RECURSIVE LevFill(_, _, _, _, _)
LevFill(a, b, i, prev, cur) ==
    IF Len(cur) = Len(b) + 1 THEN cur
    ELSE LET j == Len(cur)
             subst == prev[j] + (IF a[i] = b[j] THEN 0 ELSE 1)
         IN LevFill(a, b, i, prev,
                    Append(cur, Min2(Min2(prev[j + 1] + 1, cur[j] + 1), subst)))

RECURSIVE LevRows(_, _, _, _)
LevRows(a, b, i, prev) ==
    IF i > Len(a) THEN prev[Len(b) + 1]
    ELSE LevRows(a, b, i + 1, LevFill(a, b, i, prev, <<i>>))

levenshtein(a, b) == LevRows(a, b, 1, [j \in 1..(Len(b) + 1) |-> j - 1])

----------------------------------------------------------------------------
(* StoreAnalysisService                                                    *)

\* the threshold of "similarity > 0.8", as the fraction ThresholdNum / ThresholdDen
ThresholdNum == 8

ThresholdDen == 10

\* 1 - distance / Math.max(normalized.length, otherNorm.length), kept as the
\* exact fraction num / den; den = 0 is the NaN of 0 / 0
similarity(normalized, otherNorm) ==
    LET distance == levenshtein(normalized, otherNorm)
        longest == Max2(Len(normalized), Len(otherNorm))
    IN [num |-> longest - distance, den |-> longest]

\* (mutant) the threshold applied to the distance ratio instead of the similarity
IsSimilarByDistance(sim) ==
    /\ sim.den # 0
    /\ (sim.den - sim.num) * ThresholdDen < ThresholdNum * sim.den

\* similarity > 0.8; every comparison with NaN is false
IsSimilar(sim) ==
    /\ sim.den # 0
    /\ sim.num * ThresholdDen > ThresholdNum * sim.den

\* transactions.filter(t => t.description === name).length
OccurrenceCount(name, txs) ==
    Cardinality({i \in 1..Len(txs) : txs[i].description = name})

RECURSIVE CountNames(_, _, _)
CountNames(names, txs, counts) ==
    IF names = <<>> THEN counts
    ELSE CountNames(Tail(names), txs,
                    MapSet(counts, names[1], OccurrenceCount(names[1], txs)))

\* the entries of the counts Map, sorted by count descending (stable)
SortedCounts(names, txs) ==
    LET counts == CountNames(names, txs, <<>>)
    IN StableSort(counts, [i \in 1..Len(counts) |-> 0 - counts[i][2]])

\* (mutant) the first name of the list, whatever the counts
FindFirstListed(names, txs) == names[1]

findMostFrequent(names, txs) == SortedCounts(names, txs)[1][1]

\* the inner forEach: collects the names similar to normalizedNames[i]
RECURSIVE FindSimilar(_, _, _, _, _)
FindSimilar(normalizedNames, i, j, similarNames, processedNames) ==
    IF j > Len(normalizedNames)
    THEN [similarNames |-> similarNames, processedNames |-> processedNames]
    ELSE LET original == normalizedNames[i].original
             other == normalizedNames[j].original
         IN IF /\ original # other
               /\ other \notin processedNames
               /\ IsSimilar(similarity(normalizedNames[i].normalized,
                                       normalizedNames[j].normalized))
            THEN FindSimilar(normalizedNames, i, j + 1,
                             Append(similarNames, other), processedNames \cup {other})
            ELSE FindSimilar(normalizedNames, i, j + 1, similarNames, processedNames)

\* similarNames.filter(name => name !== canonicalName)
VariationsUnfiltered(similarNames, canonicalName) == similarNames

VariationsOf(similarNames, canonicalName) ==
    SelectSeq(similarNames, LAMBDA name : name # canonicalName)

\* the outer forEach: one cluster per name not yet processed
RECURSIVE GroupSimilar(_, _, _, _, _)
GroupSimilar(normalizedNames, txs, i, groups, processedNames) ==
    IF i > Len(normalizedNames) THEN groups
    ELSE LET original == normalizedNames[i].original
         IN IF original \in processedNames
            THEN GroupSimilar(normalizedNames, txs, i + 1, groups, processedNames)
            ELSE LET found == FindSimilar(normalizedNames, i, 1, <<original>>,
                                          processedNames \cup {original})
                     similarNames == found.similarNames
                     canonicalName == findMostFrequent(similarNames, txs)
                     variations == VariationsOf(similarNames, canonicalName)
                 IN GroupSimilar(normalizedNames, txs, i + 1,
                                 IF Len(similarNames) > 1
                                 THEN MapSet(groups, canonicalName, variations)
                                 ELSE groups,
                                 found.processedNames)

StoreNames(txs) == Unique([i \in 1..Len(txs) |-> txs[i].description], {})

NormalizedNames(txs) ==
    LET storeNames == StoreNames(txs)
    IN [i \in 1..Len(storeNames) |->
            [original |-> storeNames[i], normalized |-> Normalize(storeNames[i])]]

analyzeSimilarStores(txs) ==
    LET groups == GroupSimilar(NormalizedNames(txs), txs, 1, <<>>, {})
    IN [i \in 1..Len(groups) |->
            [canonicalName |-> groups[i][1], variations |-> groups[i][2]]]

\* (mutant) the reverse index also filled in the other direction
RECURSIVE ReverseVariationsBothWays(_, _, _)
ReverseVariationsBothWays(canonical, variations, reverseMap) ==
    IF variations = <<>> THEN reverseMap
    ELSE ReverseVariationsBothWays(canonical, Tail(variations),
             MapSet(MapSet(reverseMap, variations[1], canonical), canonical, variations[1]))

\* reverseMap of applyStoreMappings: variation -> canonical, later entries win
RECURSIVE ReverseVariations(_, _, _)
ReverseVariations(canonical, variations, reverseMap) ==
    IF variations = <<>> THEN reverseMap
    ELSE ReverseVariations(canonical, Tail(variations),
                           MapSet(reverseMap, variations[1], canonical))

RECURSIVE ReverseMap(_, _)
ReverseMap(mappings, reverseMap) ==
    IF mappings = <<>> THEN reverseMap
    ELSE ReverseMap(Tail(mappings),
                    ReverseVariations(mappings[1][1], mappings[1][2], reverseMap))

\* one step of transactions.map(...) in applyStoreMappings
RewriteDescription(transaction, reverseMap) ==
    IF HasKey(reverseMap, transaction.description)
       /\ Truthy(MapGet(reverseMap, transaction.description))
    THEN [transaction EXCEPT !.description = MapGet(reverseMap, transaction.description)]
    ELSE transaction

applyStoreMappings(txs, mappings) ==
    LET reverseMap == ReverseMap(mappings, <<>>)
    IN [i \in 1..Len(txs) |-> RewriteDescription(txs[i], reverseMap)]

\* what a caller sees when the entry point throws instead of returning
Thrown(error) == [threw |-> TRUE, error |-> error]

\* [...counts.entries()].sort(...)[0][0] reads index 0 of undefined when names is empty
FindMostFrequentThrows(names) == names = <<>>

\* one step of transactions.map(...) in mergeGroups and splitGroup
RenameIfListed(transaction, names, canonicalName) ==
    IF Contains(names, transaction.description)
    THEN [transaction EXCEPT !.description = canonicalName]
    ELSE transaction

\* [group1.canonicalName, ...group1.variations, group2.canonicalName, ...group2.variations]
AllNames(group1, group2) ==
    <<group1.canonicalName>> \o group1.variations
        \o <<group2.canonicalName>> \o group2.variations

\* allNames.filter(name => name !== canonicalName)
MergedVariations(allNames, canonicalName) ==
    SelectSeq(allNames, LAMBDA name : name # canonicalName)

mergeGroups(group1, group2, txs) ==
    LET allNames == AllNames(group1, group2)
        canonicalName == findMostFrequent(allNames, txs)
    IN [threw |-> FALSE,
        newGroup |-> [canonicalName |-> canonicalName,
                      variations |-> MergedVariations(allNames, canonicalName)],
        updatedTransactions |->
            [i \in 1..Len(txs) |-> RenameIfListed(txs[i], allNames, canonicalName)]]

\* group.variations.filter(v => !variationsToSplit.includes(v))
RemainingVariations(group, variationsToSplit) ==
    SelectSeq(group.variations, LAMBDA v : ~Contains(variationsToSplit, v))

splitGroup(group, variationsToSplit, txs) ==
    IF FindMostFrequentThrows(variationsToSplit) THEN Thrown("TypeError")
    ELSE LET canonicalName == findMostFrequent(variationsToSplit, txs)
         IN [threw |-> FALSE,
             originalGroup |->
                 [canonicalName |-> group.canonicalName,
                  variations |-> RemainingVariations(group, variationsToSplit)],
             newGroup |->
                 [canonicalName |-> canonicalName,
                  variations |-> VariationsOf(variationsToSplit, canonicalName)],
             updatedTransactions |->
                 [i \in 1..Len(txs) |->
                     RenameIfListed(txs[i], variationsToSplit, canonicalName)]]

----------------------------------------------------------------------------
(* Dates: "YYYY-MM-DD" strings, compared as strings, parsed by new Date()   *)

\* UTF-16 order of the characters of a date string: "-" before the digits
CharOrder == <<"-">> \o Digits

CharCode(c) == CHOOSE i \in 1..Len(CharOrder) : CharOrder[i] = c

\* a < b on strings: by code unit, a proper prefix first
RECURSIVE LexLess(_, _)
LexLess(a, b) ==
    IF b = <<>> THEN FALSE
    ELSE IF a = <<>> THEN TRUE
    ELSE IF a[1] # b[1] THEN CharCode(a[1]) < CharCode(b[1])
    ELSE LexLess(Tail(a), Tail(b))

RECURSIVE ParseDigits(_, _)
ParseDigits(s, acc) ==
    IF s = <<>> THEN acc
    ELSE ParseDigits(Tail(s), acc * 10 + (CharCode(s[1]) - 2))

\* days since 1970-01-01 of a civil date, proleptic Gregorian (Date.UTC)
DaysFromCivil(y, m, d) ==
    LET yy == IF m <= 2 THEN y - 1 ELSE y
        era == yy \div 400
        yoe == yy - era * 400
        doy == (153 * (IF m > 2 THEN m - 3 ELSE m + 9) + 2) \div 5 + d - 1
        doe == yoe * 365 + yoe \div 4 - yoe \div 100 + doy
    IN era * 146097 + doe - 719468

CivilFromDays(days) ==
    LET z == days + 719468
        era == z \div 146097
        doe == z - era * 146097
        yoe == (doe - doe \div 1460 + doe \div 36524 - doe \div 146096) \div 365
        doy == doe - (365 * yoe + yoe \div 4 - yoe \div 100)
        mp == (5 * doy + 2) \div 153
        d == doy - (153 * mp + 2) \div 5 + 1
        m == IF mp < 10 THEN mp + 3 ELSE mp - 9
    IN [y |-> yoe + era * 400 + (IF m <= 2 THEN 1 ELSE 0), m |-> m, d |-> d]

\* new Date("YYYY-MM-DD"): UTC midnight of that day, as a day number
ParseDate(s) ==
    DaysFromCivil(ParseDigits(SubSeq(s, 1, 4), 0),
                  ParseDigits(SubSeq(s, 6, 7), 0),
                  ParseDigits(SubSeq(s, 9, 10), 0))

\* a date string that parseISO and new Date read as a calendar day; the inputs
\* are calendar days or text that is no date at all
IsValidDate(date) ==
    /\ Len(date) = 10
    /\ date[5] = "-" /\ date[8] = "-"
    /\ \A i \in {1, 2, 3, 4, 6, 7, 9, 10} : date[i] \in Range(Digits)
    /\ ParseDigits(SubSeq(date, 6, 7), 0) \in 1..12
    /\ ParseDigits(SubSeq(date, 9, 10), 0) \in 1..31

\* format(parseISO(date), 'yyyy-MM') throws a RangeError on an Invalid Date
FormatThrows(txs) == \E i \in 1..Len(txs) : ~IsValidDate(txs[i].date)

\* Date.getDay(): 0 is Sunday; 1970-01-01 was a Thursday
DayOfWeek(days) == (days + 4) % 7

Pad(n, width) ==
    [i \in 1..width |-> Digits[((n \div (10 ^ (width - i))) % 10) + 1]]

\* toISOString().split('T')[0]
FormatDate(days) ==
    LET c == CivilFromDays(days)
    IN Pad(c.y, 4) \o <<"-">> \o Pad(c.m, 2) \o <<"-">> \o Pad(c.d, 2)

\* the 'week' branch: local date of UTC midnight, back to its Sunday with
\* setDate(getDate() - getDay()), printed in UTC
StartOfWeek(date, zone) ==
    LET localDay == ParseDate(date) + zone
        startLocal == localDay - DayOfWeek(localDay)
    IN FormatDate(startLocal - zone)

----------------------------------------------------------------------------
(* AnalysisService                                                         *)

RECURSIVE StoreVariations(_, _, _)
StoreVariations(canonical, variations, storeToCanonical) ==
    IF variations = <<>> THEN storeToCanonical
    ELSE StoreVariations(canonical, Tail(variations),
                         MapSet(storeToCanonical, variations[1], canonical))

RECURSIVE StoreEntries(_, _)
StoreEntries(mappings, storeToCanonical) ==
    IF mappings = <<>> THEN storeToCanonical
    ELSE StoreEntries(Tail(mappings),
             StoreVariations(mappings[1][1], mappings[1][2],
                             MapSet(storeToCanonical, mappings[1][1], mappings[1][1])))

createStoreMapping(mappings) == StoreEntries(mappings, <<>>)

\* storeToCanonical.get(description) is a non-empty string
HasCanonical(storeToCanonical, description) ==
    /\ HasKey(storeToCanonical, description)
    /\ Truthy(MapGet(storeToCanonical, description))

\* (mutant) the store filter matched against the raw description
PassesStoreFilterRaw(transaction, fs, storeToCanonical) ==
    Len(fs.stores) > 0 => Contains(fs.stores, transaction.description)

PassesStoreFilter(transaction, fs, storeToCanonical) ==
    Len(fs.stores) > 0 =>
        /\ HasCanonical(storeToCanonical, transaction.description)
        /\ Contains(fs.stores, MapGet(storeToCanonical, transaction.description))

\* the callback of transactions.filter in filterTransactions
PassesFilters(transaction, fs, storeToCanonical) ==
    /\ ~(Truthy(fs.startDate) /\ LexLess(transaction.date, fs.startDate))
    /\ ~(Truthy(fs.endDate) /\ LexLess(fs.endDate, transaction.date))
    /\ ~(Len(fs.categories) > 0 /\ ~Contains(fs.categories, transaction.category))
    /\ PassesStoreFilter(transaction, fs, storeToCanonical)
    /\ (Len(fs.people) > 0 =>
            \E p \in 1..Len(fs.people) :
                \E k \in 1..Len(transaction.shares) :
                    transaction.shares[k].name = fs.people[p])

\* (mutant) every transaction passes the filter
FilterKeepsAll(txs, fs, mappings) == txs

filterTransactions(txs, fs, mappings) ==
    LET storeToCanonical == createStoreMapping(mappings)
    IN FilterIdx(txs, {i \in 1..Len(txs) : PassesFilters(txs[i], fs, storeToCanonical)}, 1)

\* (mutant) the running amount of the key is overwritten, not added to
AddToOverwrite(groupedData, key, amount) == MapSet(groupedData, key, amount)

\* groupedData.set(key, (groupedData.get(key) || 0) + amount)
AddTo(groupedData, key, amount) ==
    MapSet(groupedData, key,
           (IF HasKey(groupedData, key) THEN MapGet(groupedData, key) ELSE 0) + amount)

GroupKeyOfTime(transaction, interval, zone) ==
    IF interval = "week" THEN StartOfWeek(transaction.date, zone)
    ELSE IF interval = "month" THEN SubSeq(transaction.date, 1, 7)
    ELSE transaction.date

RECURSIVE GroupByTime(_, _, _, _)
GroupByTime(filtered, interval, zone, groupedData) ==
    IF filtered = <<>> THEN groupedData
    ELSE GroupByTime(Tail(filtered), interval, zone,
             AddTo(groupedData, GroupKeyOfTime(filtered[1], interval, zone),
                   filtered[1].cost))

\* Array.from(groupedData.entries()).map(([label, amount]) => ({label, amount}))
Entries(groupedData) ==
    [i \in 1..Len(groupedData) |->
        [label |-> groupedData[i][1], amount |-> groupedData[i][2]]]

\* sort((a, b) => a.label.localeCompare(b.label)): the key of a label is the
\* number of labels that compare below it
LabelRanks(data) ==
    [i \in 1..Len(data) |->
        Cardinality({j \in 1..Len(data) : LexLess(data[j].label, data[i].label)})]

getSpendingOverTime(txs, fs, mappings, interval, zone) ==
    LET filtered == filterTransactions(txs, fs, mappings)
        data == Entries(GroupByTime(filtered, interval, zone, <<>>))
    IN StableSort(data, LabelRanks(data))

\* (mutant) every share added by its absolute amount
RECURSIVE AddSharesUnsigned(_, _)
AddSharesUnsigned(shares, groupedData) ==
    IF shares = <<>> THEN groupedData
    ELSE AddSharesUnsigned(Tail(shares),
                           AddTo(groupedData, shares[1].name, Abs(shares[1].amount)))

RECURSIVE AddShares(_, _)
AddShares(shares, groupedData) ==
    IF shares = <<>> THEN groupedData
    ELSE AddShares(Tail(shares), AddTo(groupedData, shares[1].name, shares[1].amount))

\* (mutant) a description that is not in the mappings is its own store key
AddByDimensionRawStore(transaction, dimension, storeToCanonical, groupedData) ==
    IF dimension = "person" THEN AddShares(transaction.shares, groupedData)
    ELSE IF dimension = "category"
         THEN AddTo(groupedData, transaction.category, transaction.cost)
    ELSE IF HasCanonical(storeToCanonical, transaction.description)
         THEN AddTo(groupedData, MapGet(storeToCanonical, transaction.description),
                    transaction.cost)
    ELSE AddTo(groupedData, transaction.description, transaction.cost)

\* the callback of filtered.forEach in getSpendingBy
AddByDimension(transaction, dimension, storeToCanonical, groupedData) ==
    IF dimension = "person" THEN AddShares(transaction.shares, groupedData)
    ELSE IF dimension = "category"
         THEN AddTo(groupedData, transaction.category, transaction.cost)
    ELSE IF HasCanonical(storeToCanonical, transaction.description)
         THEN AddTo(groupedData, MapGet(storeToCanonical, transaction.description),
                    transaction.cost)
    ELSE groupedData

RECURSIVE GroupByDimension(_, _, _, _)
GroupByDimension(filtered, dimension, storeToCanonical, groupedData) ==
    IF filtered = <<>> THEN groupedData
    ELSE GroupByDimension(Tail(filtered), dimension, storeToCanonical,
             AddByDimension(filtered[1], dimension, storeToCanonical, groupedData))

getSpendingBy(txs, fs, mappings, dimension) ==
    LET filtered == filterTransactions(txs, fs, mappings)
        storeToCanonical == IF dimension = "store" THEN createStoreMapping(mappings)
                            ELSE <<>>
        data == Entries(GroupByDimension(filtered, dimension, storeToCanonical, <<>>))
    IN StableSort(data, [i \in 1..Len(data) |-> 0 - Abs(data[i].amount)])

\* Array.prototype.slice(start, end), negative indices counting from the end
Slice(s, start, end) ==
    LET from == IF start < 0 THEN Max2(Len(s) + start, 0) ELSE Min2(start, Len(s))
        to == IF end < 0 THEN Max2(Len(s) + end, 0) ELSE Min2(end, Len(s))
    IN SubSeq(s, from + 1, to)

\* the description shown for a transaction: its canonical name where mapped
DisplayTransaction(transaction, storeToCanonical) ==
    IF HasCanonical(storeToCanonical, transaction.description)
    THEN [transaction EXCEPT
            !.description = MapGet(storeToCanonical, transaction.description)]
    ELSE transaction

\* (mutant) pages counted from 0
SliceStartZeroBased(page, pageSize) == page * pageSize

SliceStart(page, pageSize) == (page - 1) * pageSize

getDetailedTransactions(txs, fs, mappings, page, pageSize) ==
    LET filtered == filterTransactions(txs, fs, mappings)
        storeToCanonical == createStoreMapping(mappings)
        transformedTransactions ==
            [i \in 1..Len(filtered) |-> DisplayTransaction(filtered[i], storeToCanonical)]
        start == SliceStart(page, pageSize)
    IN [transactions |-> Slice(transformedTransactions, start, start + pageSize),
        total |-> Len(transformedTransactions)]

----------------------------------------------------------------------------
(* AdvancedAnalyticsService.getBalanceAnalytics                            *)

\* format(parseISO(date), 'yyyy-MM')
FormatMonth(date) ==
    LET c == CivilFromDays(ParseDate(date))
    IN Pad(c.y, 4) \o <<"-">> \o Pad(c.m, 2)

\* (mutant) transactions of one date in reverse input order
SortByDateTiesReversed(txs) ==
    StableSort(txs, [i \in 1..Len(txs) |->
        Cardinality({j \in 1..Len(txs) :
            \/ LexLess(txs[j].date, txs[i].date)
            \/ txs[j].date = txs[i].date /\ j > i})])

\* [...transactions].sort((a, b) => a.date.localeCompare(b.date))
SortByDate(txs) ==
    StableSort(txs, [i \in 1..Len(txs) |->
        Cardinality({j \in 1..Len(txs) : LexLess(txs[j].date, txs[i].date)})])

\* (mutant) the share is added to the balance without its sign
BalanceStepUnsigned(ledger, date, share) ==
    LET balance == (IF HasKey(ledger.runningBalances, share.name)
                    THEN MapGet(ledger.runningBalances, share.name) ELSE 0)
                   + Abs(share.amount)
    IN [runningBalances |-> MapSet(ledger.runningBalances, share.name, balance),
        paymentFrequency |-> AddTo(ledger.paymentFrequency, share.name, 1),
        balanceHistory |-> Append(ledger.balanceHistory,
                              [date |-> date, balance |-> balance, person |-> share.name])]

\* the body of transaction.shares.forEach in the first pass
BalanceStep(ledger, date, share) ==
    LET balance == (IF HasKey(ledger.runningBalances, share.name)
                    THEN MapGet(ledger.runningBalances, share.name) ELSE 0)
                   + share.amount
    IN [runningBalances |-> MapSet(ledger.runningBalances, share.name, balance),
        paymentFrequency |-> AddTo(ledger.paymentFrequency, share.name, 1),
        balanceHistory |-> Append(ledger.balanceHistory,
                              [date |-> date, balance |-> balance, person |-> share.name])]

RECURSIVE BalanceShares(_, _, _)
BalanceShares(ledger, date, shares) ==
    IF shares = <<>> THEN ledger
    ELSE BalanceShares(BalanceStep(ledger, date, shares[1]), date, Tail(shares))

RECURSIVE BalanceWalk(_, _)
BalanceWalk(ledger, sorted) ==
    IF sorted = <<>> THEN ledger
    ELSE BalanceWalk(BalanceShares(ledger, sorted[1].date, sorted[1].shares), Tail(sorted))

\* monthlyChanges: month -> { person: net amount of the month }
RECURSIVE MonthlyChanges(_, _)
MonthlyChanges(sorted, monthlyChanges) ==
    IF sorted = <<>> THEN monthlyChanges
    ELSE LET month == FormatMonth(sorted[1].date)
             monthData == IF HasKey(monthlyChanges, month)
                          THEN MapGet(monthlyChanges, month) ELSE <<>>
         IN MonthlyChanges(Tail(sorted),
                MapSet(monthlyChanges, month, AddShares(sorted[1].shares, monthData)))

\* (mutant) the net amounts added up with their sign
MonthlyBalanceChangeSigned(sorted) ==
    LET monthlyChanges == MonthlyChanges(sorted, <<>>)
        changes == [i \in 1..Len(monthlyChanges) |->
                      [label |-> monthlyChanges[i][1],
                       amount |-> SumSeq([k \in 1..Len(monthlyChanges[i][2]) |->
                                            monthlyChanges[i][2][k][2]])]]
        ordered == StableSort(changes, LabelRanks(changes))
    IN [i \in 1..Len(ordered) |->
            [month |-> ordered[i].label, change |-> ordered[i].amount]]

\* { month, change }: the sum over the people of |net amount|, sorted by month
MonthlyBalanceChange(sorted) ==
    LET monthlyChanges == MonthlyChanges(sorted, <<>>)
        changes == [i \in 1..Len(monthlyChanges) |->
                      [label |-> monthlyChanges[i][1],
                       amount |-> SumSeq([k \in 1..Len(monthlyChanges[i][2]) |->
                                            Abs(monthlyChanges[i][2][k][2])])]]
        ordered == StableSort(changes, LabelRanks(changes))
    IN [i \in 1..Len(ordered) |->
            [month |-> ordered[i].label, change |-> ordered[i].amount]]

\* (mutant) the balances compared with their sign
RECURSIVE DailyImbalancesSigned(_, _)
DailyImbalancesSigned(balanceHistory, dailyImbalances) ==
    IF balanceHistory = <<>> THEN dailyImbalances
    ELSE LET record == balanceHistory[1]
             currentMax == IF HasKey(dailyImbalances, record.date)
                           THEN MapGet(dailyImbalances, record.date) ELSE 0
         IN DailyImbalancesSigned(Tail(balanceHistory),
                MapSet(dailyImbalances, record.date, Max2(currentMax, record.balance)))

\* dailyImbalances: date -> the largest |balance| recorded on that date
RECURSIVE DailyImbalances(_, _)
DailyImbalances(balanceHistory, dailyImbalances) ==
    IF balanceHistory = <<>> THEN dailyImbalances
    ELSE LET record == balanceHistory[1]
             currentMax == IF HasKey(dailyImbalances, record.date)
                           THEN MapGet(dailyImbalances, record.date) ELSE 0
         IN DailyImbalances(Tail(balanceHistory),
                MapSet(dailyImbalances, record.date, Max2(currentMax, Abs(record.balance))))

LargestImbalancePeriod(sorted, balanceHistory) ==
    IF Len(balanceHistory) > 0
    THEN LET dailyImbalances == DailyImbalances(balanceHistory, <<>>)
             maxImbalance == CHOOSE m \in {dailyImbalances[i][2] : i \in 1..Len(dailyImbalances)} :
                                 \A i \in 1..Len(dailyImbalances) : dailyImbalances[i][2] <= m
             found == CHOOSE i \in 1..Len(dailyImbalances) :
                          /\ dailyImbalances[i][2] = maxImbalance
                          /\ \A j \in 1..(i - 1) : dailyImbalances[j][2] # maxImbalance
             maxImbalanceDate == dailyImbalances[found][1]
         IN IF Truthy(maxImbalanceDate)
            THEN [start |-> maxImbalanceDate, end |-> maxImbalanceDate,
                  maxImbalance |-> maxImbalance]
            ELSE [start |-> sorted[1].date, end |-> sorted[Len(sorted)].date,
                  maxImbalance |-> 0]
    ELSE [start |-> IF Len(sorted) > 0 THEN sorted[1].date ELSE <<>>,
          end |-> IF Len(sorted) > 0 THEN sorted[Len(sorted)].date ELSE <<>>,
          maxImbalance |-> 0]

\* the try block
BalanceAnalyticsOf(txs) ==
    LET sortedTransactions == SortByDate(txs)
        ledger == BalanceWalk([runningBalances |-> <<>>, paymentFrequency |-> <<>>,
                               balanceHistory |-> <<>>], sortedTransactions)
    IN [currentBalance |-> ledger.runningBalances,
        balanceHistory |-> ledger.balanceHistory,
        monthlyBalanceChange |-> MonthlyBalanceChange(sortedTransactions),
        paymentFrequency |-> ledger.paymentFrequency,
        largestImbalancePeriod |->
            LargestImbalancePeriod(sortedTransactions, ledger.balanceHistory)]

\* the result of the catch block
EmptyBalanceAnalytics ==
    [currentBalance |-> <<>>, balanceHistory |-> <<>>, monthlyBalanceChange |-> <<>>,
     paymentFrequency |-> <<>>,
     largestImbalancePeriod |-> [start |-> <<>>, end |-> <<>>, maxImbalance |-> 0]]

getBalanceAnalytics(txs) ==
    IF FormatThrows(txs) THEN EmptyBalanceAnalytics ELSE BalanceAnalyticsOf(txs)

----------------------------------------------------------------------------
(* AdvancedAnalyticsService.getBudgetIntelligence                          *)
(* Averages and budgets are exact fractions [num, den]; a confidence is a  *)
(* JavaScript number: NaN, or a value counted in 1/ConfidenceUnit.         *)

ConfidenceUnit == 100

NaN == [nan |-> TRUE, value |-> 0]

Num(v) == [nan |-> FALSE, value |-> v]

\* floor(Math.sqrt(x)): the hundreds of the root, then its units
Isqrt(x) ==
    LET hundreds == CHOOSE h \in 0..(x \div 10000) : (h + 1) * (h + 1) * 10000 > x
    IN CHOOSE r \in (100 * hundreds)..(100 * hundreds + 99) :
           r * r <= x /\ (r + 1) * (r + 1) > x

\* a.num / a.den < b.num / b.den, denominators positive
RatLess(a, b) == a.num * b.den < b.num * a.den

\* keys that sort a list of fractions in descending order
DescendingRanks(values) ==
    [i \in 1..Len(values) |->
        Cardinality({j \in 1..Len(values) : RatLess(values[i], values[j])})]

\* monthlyData: month -> sum of cost, in order of first appearance
RECURSIVE MonthlyData(_, _)
MonthlyData(categoryTransactions, monthlyData) ==
    IF categoryTransactions = <<>> THEN monthlyData
    ELSE MonthlyData(Tail(categoryTransactions),
             AddTo(monthlyData, FormatMonth(categoryTransactions[1].date),
                   categoryTransactions[1].cost))

\* recent > older * 1.1 / recent < older * 0.9 on the halves of the sums of the
\* last two months and of slice(-4, -2)
TrendOf(monthlyAmounts) ==
    IF Len(monthlyAmounts) >= 3
    THEN LET recent == SumSeq(Slice(monthlyAmounts, -2, Len(monthlyAmounts)))
             older == SumSeq(Slice(monthlyAmounts, -4, -2))
         IN IF 10 * recent > 11 * older THEN "increasing"
            ELSE IF 10 * recent < 9 * older THEN "decreasing"
            ELSE "stable"
    ELSE "stable"

\* Math.max(0, Math.min(1, x)): NaN stays NaN
Clamp01(x) ==
    IF x.nan THEN NaN ELSE Num(Max2(0, Min2(ConfidenceUnit, x.value)))

\* n * n * variance of n amounts: n * (sum of squares) - (sum) * (sum)
Spread(monthlyAmounts) ==
    LET n == Len(monthlyAmounts)
        S == SumSeq(monthlyAmounts)
        squares == SumSeq([i \in 1..n |-> monthlyAmounts[i] * monthlyAmounts[i]])
    IN IF n > 1 THEN n * squares - S * S ELSE 0

\* 1 - Math.sqrt(variance) / currentMonthlyAverage, where
\* sqrt(variance) / average = sqrt(spread) / S for n amounts of sum S; for
\* S = 0 the quotient is 0 / 0 = NaN or x / 0 = Infinity.
OneMinusQuotient(S, spread) ==
    IF S = 0
    THEN (IF spread = 0 THEN NaN ELSE Num(0 - ConfidenceUnit * ConfidenceUnit))
    ELSE IF S > 0
    THEN Num(ConfidenceUnit - Isqrt(spread * ConfidenceUnit * ConfidenceUnit) \div S)
    ELSE Num(ConfidenceUnit + Isqrt(spread * ConfidenceUnit * ConfidenceUnit) \div (0 - S))

OneMinusSpread(monthlyAmounts) ==
    CHOOSE x \in {OneMinusQuotient(S, spread) :
                     S \in {SumSeq(monthlyAmounts)},
                     spread \in {Spread(monthlyAmounts)}} : TRUE

Confidence(monthlyAmounts) == Clamp01(OneMinusSpread(monthlyAmounts))

\* Object.values(monthlyData) of one category
MonthlyAmounts(category, txs) ==
    LET categoryTransactions ==
            FilterIdx(txs, {i \in 1..Len(txs) : txs[i].category = category}, 1)
        monthlyData == MonthlyData(categoryTransactions, <<>>)
    IN [i \in 1..Len(monthlyData) |-> monthlyData[i][2]]

\* currentMonthlyAverage
AverageOf(monthlyAmounts) ==
    [num |-> SumSeq(monthlyAmounts), den |-> Len(monthlyAmounts)]

Scale(average, percent) == [num |-> percent * average.num, den |-> 100 * average.den]

PredictedAmount(average, trend) ==
    IF trend = "increasing" THEN Scale(average, 110)
    ELSE IF trend = "decreasing" THEN Scale(average, 90)
    ELSE average

\* the recommendation and the prediction pushed for one category
BudgetOf(category, monthlyAmounts) ==
    [recommendation |->
         [category |-> category,
          suggestedBudget |-> Scale(AverageOf(monthlyAmounts), 120),
          currentMonthlyAverage |-> AverageOf(monthlyAmounts),
          trend |-> TrendOf(monthlyAmounts),
          confidence |-> Confidence(monthlyAmounts)],
     prediction |->
         [category |-> category,
          predictedAmount |->
              PredictedAmount(AverageOf(monthlyAmounts), TrendOf(monthlyAmounts)),
          confidence |-> Confidence(monthlyAmounts)]]

\* the body of categories.forEach; monthlyAmounts is computed once
CategoryBudget(category, txs) ==
    CHOOSE budget \in {BudgetOf(category, monthlyAmounts) :
                          monthlyAmounts \in {MonthlyAmounts(category, txs)}} : TRUE

SortedBudgets(budgets) ==
    [categoryRecommendations |->
         StableSort([c \in 1..Len(budgets) |-> budgets[c].recommendation],
             DescendingRanks([c \in 1..Len(budgets) |->
                                 budgets[c].recommendation.currentMonthlyAverage])),
     predictedNextMonthSpending |->
         StableSort([c \in 1..Len(budgets) |-> budgets[c].prediction],
             DescendingRanks([c \in 1..Len(budgets) |->
                                 budgets[c].prediction.predictedAmount]))]

Categories(txs) == Unique([i \in 1..Len(txs) |-> txs[i].category], {})

\* the square of zScore = |cost - mean| / stdDev as an exact fraction: both
\* squares multiplied by n^2, (n * cost - sum)^2 over the n-th part of the sum
\* of the (n * amount - sum)^2
ZScoreSquared(cost, amounts) ==
    [num |-> (Len(amounts) * cost - SumSeq(amounts))
              * (Len(amounts) * cost - SumSeq(amounts)),
     den |-> SumSeq([i \in 1..Len(amounts) |->
                        (Len(amounts) * amounts[i] - SumSeq(amounts))
                      * (Len(amounts) * amounts[i] - SumSeq(amounts))])
             \div Len(amounts)]

\* (mutant) flagged from 1 standard deviation on
IsAnomalyFromOne(scoreSquared) ==
    scoreSquared.den > 0 /\ scoreSquared.num > scoreSquared.den

\* zScore > 2; with stdDev 0 the score is NaN (0 / 0) and the test fails
IsAnomaly(scoreSquared) ==
    scoreSquared.den > 0 /\ scoreSquared.num > 4 * scoreSquared.den

\* the anomalies of one category: none with fewer than 5 transactions
CategoryAnomalies(categoryTransactions, amounts) ==
    IF Len(categoryTransactions) < 5 THEN <<>>
    ELSE [i \in 1..Len(SelectSeq(amounts, LAMBDA a : IsAnomaly(ZScoreSquared(a, amounts)))) |->
             [transaction |->
                  SelectSeq(categoryTransactions,
                            LAMBDA t : IsAnomaly(ZScoreSquared(t.cost, amounts)))[i],
              anomalyType |-> "unusually_high",
              scoreSquared |->
                  ZScoreSquared(SelectSeq(amounts,
                                    LAMBDA a : IsAnomaly(ZScoreSquared(a, amounts)))[i],
                                amounts)]]

RECURSIVE AnomaliesOf(_, _)
AnomaliesOf(categories, txs) ==
    IF categories = <<>> THEN <<>>
    ELSE The({CategoryAnomalies(categoryTransactions,
                  [i \in 1..Len(categoryTransactions) |-> categoryTransactions[i].cost]) :
                categoryTransactions \in
                    {SelectSeq(txs, LAMBDA t : t.category = categories[1])}})
         \o AnomaliesOf(Tail(categories), txs)

\* anomalies.sort((a, b) => b.score - a.score) and slice(0, 10)
TopAnomalies(anomalies) ==
    Slice(StableSort(anomalies,
              DescendingRanks([i \in 1..Len(anomalies) |-> anomalies[i].scoreSquared])),
          0, 10)

\* the try block
BudgetIntelligenceOf(txs) ==
    The({[categoryRecommendations |-> sorted.categoryRecommendations,
          anomalies |-> TopAnomalies(AnomaliesOf(Categories(txs), txs)),
          predictedNextMonthSpending |-> sorted.predictedNextMonthSpending] :
            sorted \in {SortedBudgets([c \in 1..Len(Categories(txs)) |->
                                          CategoryBudget(Categories(txs)[c], txs)])}})

\* the result of the catch block
EmptyBudgetIntelligence ==
    [categoryRecommendations |-> <<>>, anomalies |-> <<>>,
     predictedNextMonthSpending |-> <<>>]

getBudgetIntelligence(txs) ==
    IF FormatThrows(txs) THEN EmptyBudgetIntelligence ELSE BudgetIntelligenceOf(txs)

----------------------------------------------------------------------------
(* AdvancedAnalyticsService: helpers shared by its methods                 *)

DayNames ==
    <<"Sunday", "Monday", "Tuesday", "Wednesday", "Thursday", "Friday", "Saturday">>

getDayName(dayNumber) == DayNames[dayNumber + 1]

\* this.getDayName(getDay(parseISO(date))): days[NaN] is undefined
DayNameOf(date) ==
    IF IsValidDate(date) THEN getDayName(DayOfWeek(ParseDate(date))) ELSE "undefined"

\* storeMapping.get(description) || description
getCanonicalStoreName(description, storeMapping) ==
    IF HasCanonical(storeMapping, description) THEN MapGet(storeMapping, description)
    ELSE description

Zero == [num |-> 0, den |-> 1]

\* total / count, or 0 when count is 0
Average(total, count) == IF count > 0 THEN [num |-> total, den |-> count] ELSE Zero

\* monthlyData: month -> { amount, count }, one more transaction of `cost`
AddMonthly(monthlyData, month, cost) ==
    IF HasKey(monthlyData, month)
    THEN MapSet(monthlyData, month,
                [amount |-> MapGet(monthlyData, month).amount + cost,
                 count |-> MapGet(monthlyData, month).count + 1])
    ELSE MapSet(monthlyData, month, [amount |-> cost, count |-> 1])

RECURSIVE MonthlyTotals(_, _)
MonthlyTotals(txs, monthlyData) ==
    IF txs = <<>> THEN monthlyData
    ELSE The({MonthlyTotals(Tail(txs), next) :
                next \in {AddMonthly(monthlyData, FormatMonth(txs[1].date), txs[1].cost)}})

\* Array.from(monthlyData.entries()).map(...).sort(by month)
MonthlySeries(monthlyData) ==
    StableSort([i \in 1..Len(monthlyData) |->
                   [month |-> monthlyData[i][1],
                    amount |-> monthlyData[i][2].amount,
                    count |-> monthlyData[i][2].count]],
               [i \in 1..Len(monthlyData) |->
                   Cardinality({j \in 1..Len(monthlyData) :
                       LexLess(monthlyData[j][1], monthlyData[i][1])})])

\* a Map of per-key counters filled by txs.forEach: key -> running sum of amounts
RECURSIVE Tally(_, _, _, _)
Tally(txs, keys, amounts, tally) ==
    IF txs = <<>> THEN tally
    ELSE The({Tally(Tail(txs), Tail(keys), Tail(amounts), next) :
                next \in {AddTo(tally, keys[1], amounts[1])}})

----------------------------------------------------------------------------
(* AdvancedAnalyticsService.getStoreAnalytics                              *)

\* the first forEach: one more transaction at canonicalStore
RecordVisit(storeMap, transaction, canonicalStore) ==
    IF HasKey(storeMap, canonicalStore)
    THEN MapSet(storeMap, canonicalStore,
             [MapGet(storeMap, canonicalStore) EXCEPT
                 !.visitFrequency = @ + 1,
                 !.totalSpent = @ + transaction.cost,
                 !.firstVisited = IF LexLess(transaction.date, @) THEN transaction.date ELSE @,
                 !.lastVisited = IF LexLess(@, transaction.date) THEN transaction.date ELSE @])
    ELSE MapSet(storeMap, canonicalStore,
             [storeName |-> canonicalStore,
              visitFrequency |-> 1,
              totalSpent |-> transaction.cost,
              firstVisited |-> transaction.date,
              lastVisited |-> transaction.date])

RECURSIVE RecordVisits(_, _, _)
RecordVisits(txs, storeMapping, storeMap) ==
    IF txs = <<>> THEN storeMap
    ELSE The({RecordVisits(Tail(txs), storeMapping, next) :
                next \in {RecordVisit(storeMap, txs[1],
                              getCanonicalStoreName(txs[1].description, storeMapping))}})

StoreTransactions(txs, storeMapping, storeName) ==
    SelectSeq(txs, LAMBDA t : getCanonicalStoreName(t.description, storeMapping) = storeName)

\* dayCount entries as { day, frequency }, most frequent first
PopularDays(dayCount) ==
    StableSort([i \in 1..Len(dayCount) |->
                   [day |-> dayCount[i][1], frequency |-> dayCount[i][2]]],
               [i \in 1..Len(dayCount) |-> 0 - dayCount[i][2]])

\* monthlyTrend: the monthly series with the count named visits
MonthlyTrend(series) ==
    [i \in 1..Len(series) |->
        [month |-> series[i].month, amount |-> series[i].amount, visits |-> series[i].count]]

\* the second pass: the derived metrics of one store
StoreMetrics(analytics, storeTransactions) ==
    [storeName |-> analytics.storeName,
     visitFrequency |-> analytics.visitFrequency,
     averageSpend |-> Average(analytics.totalSpent, analytics.visitFrequency),
     totalSpent |-> analytics.totalSpent,
     popularDays |->
         PopularDays(Tally(storeTransactions,
                           [i \in 1..Len(storeTransactions) |->
                               DayNameOf(storeTransactions[i].date)],
                           [i \in 1..Len(storeTransactions) |-> 1], <<>>)),
     categories |->
         Unique([i \in 1..Len(storeTransactions) |-> storeTransactions[i].category], {}),
     firstVisited |-> analytics.firstVisited,
     lastVisited |-> analytics.lastVisited,
     monthlyTrend |-> MonthlyTrend(MonthlySeries(MonthlyTotals(storeTransactions, <<>>)))]

\* Array.from(storeMap.values()).map(...).sort((a, b) => b.totalSpent - a.totalSpent)
AllStoreMetrics(storeMap, txs, storeMapping) ==
    StableSort([i \in 1..Len(storeMap) |->
                   The({StoreMetrics(storeMap[i][2], storeTransactions) :
                          storeTransactions \in
                              {StoreTransactions(txs, storeMapping, storeMap[i][1])}})],
               [i \in 1..Len(storeMap) |-> 0 - storeMap[i][2].totalSpent])

StoreAnalyticsWith(txs, storeMapping) ==
    The({AllStoreMetrics(storeMap, txs, storeMapping) :
           storeMap \in {RecordVisits(txs, storeMapping, <<>>)}})

\* the catch block returns []
getStoreAnalytics(txs, mappings) ==
    IF FormatThrows(txs) THEN <<>>
    ELSE The({StoreAnalyticsWith(txs, storeMapping) :
                storeMapping \in {createStoreMapping(mappings)}})

----------------------------------------------------------------------------
(* AdvancedAnalyticsService.getCategoryTrends                              *)

SumAmountsOf(months) == SumSeq([i \in 1..Len(months) |-> months[i].amount])

\* (mutant) the growth rate computed from three monthly buckets on
GrowthRateFromThree(monthlySpend) ==
    IF Len(monthlySpend) >= 3
    THEN The({IF previous > 0
              THEN [num |-> (recent - previous) * 100, den |-> previous]
              ELSE Zero :
                recent \in {SumAmountsOf(Slice(monthlySpend, -3, Len(monthlySpend)))},
                previous \in {SumAmountsOf(Slice(monthlySpend, -6, -3))}})
    ELSE Zero

\* ((recentAvg - previousAvg) / previousAvg) * 100 as an exact fraction: the
\* two averages are the sums of three amounts divided by 3
GrowthRate(monthlySpend) ==
    IF Len(monthlySpend) >= 6
    THEN The({IF previous > 0
              THEN [num |-> (recent - previous) * 100, den |-> previous]
              ELSE Zero :
                recent \in {SumAmountsOf(Slice(monthlySpend, -3, Len(monthlySpend)))},
                previous \in {SumAmountsOf(Slice(monthlySpend, -6, -3))}})
    ELSE Zero

\* storeData: store -> { amount, frequency }, one more transaction of `cost`
AddStoreData(storeData, store, cost) ==
    IF HasKey(storeData, store)
    THEN MapSet(storeData, store,
                [amount |-> MapGet(storeData, store).amount + cost,
                 frequency |-> MapGet(storeData, store).frequency + 1])
    ELSE MapSet(storeData, store, [amount |-> cost, frequency |-> 1])

RECURSIVE StoreData(_, _, _)
StoreData(txs, storeMapping, storeData) ==
    IF txs = <<>> THEN storeData
    ELSE The({StoreData(Tail(txs), storeMapping, next) :
                next \in {AddStoreData(storeData,
                              getCanonicalStoreName(txs[1].description, storeMapping),
                              txs[1].cost)}})

\* the five stores with the largest amount
CommonStores(storeData) ==
    Slice(StableSort([i \in 1..Len(storeData) |->
                         [store |-> storeData[i][1],
                          amount |-> storeData[i][2].amount,
                          frequency |-> storeData[i][2].frequency]],
                     [i \in 1..Len(storeData) |-> 0 - storeData[i][2].amount]),
          0, 5)

\* [...categoryTransactions].sort((a, b) => b.cost - a.cost)
SortedByAmount(categoryTransactions) ==
    StableSort(categoryTransactions,
               [i \in 1..Len(categoryTransactions) |-> 0 - categoryTransactions[i].cost])

\* the CategoryTrend of one category
CategoryTrend(category, categoryTransactions, monthlySpend, storeMapping) ==
    [category |-> category,
     monthlySpend |-> monthlySpend,
     growthRate |-> GrowthRate(monthlySpend),
     largestTransaction |-> SortedByAmount(categoryTransactions)[1],
     smallestTransaction |->
         SortedByAmount(categoryTransactions)[Len(categoryTransactions)],
     averageTransactionSize |->
         Average(SumSeq([i \in 1..Len(categoryTransactions) |->
                            categoryTransactions[i].cost]),
                 Len(categoryTransactions)),
     commonStores |-> CommonStores(StoreData(categoryTransactions, storeMapping, <<>>)),
     dayOfWeekPattern |->
         Tally(categoryTransactions,
               [i \in 1..Len(categoryTransactions) |-> DayNameOf(categoryTransactions[i].date)],
               [i \in 1..Len(categoryTransactions) |-> categoryTransactions[i].cost],
               <<>>)]

CategoryTrendOf(category, txs, storeMapping) ==
    The({CategoryTrend(category, categoryTransactions, monthlySpend, storeMapping) :
           categoryTransactions \in {SelectSeq(txs, LAMBDA t : t.category = category)},
           monthlySpend \in
               {MonthlySeries(MonthlyTotals(SelectSeq(txs, LAMBDA t : t.category = category),
                                            <<>>))}})

\* sort by the total of monthlySpend, largest first
SortTrends(trends) ==
    StableSort(trends,
               [i \in 1..Len(trends) |-> 0 - SumAmountsOf(trends[i].monthlySpend)])

CategoryTrendsWith(txs, storeMapping) ==
    The({SortTrends(trends) :
           trends \in {[c \in 1..Len(Categories(txs)) |->
                          CategoryTrendOf(Categories(txs)[c], txs, storeMapping)]}})

\* the catch block returns []
getCategoryTrends(txs, mappings) ==
    IF FormatThrows(txs) THEN <<>>
    ELSE The({CategoryTrendsWith(txs, storeMapping) :
                storeMapping \in {createStoreMapping(mappings)}})

----------------------------------------------------------------------------
(* AdvancedAnalyticsService.getPaymentPatterns                             *)

\* the keys of personMap: the share names in order of first appearance
RECURSIVE PersonOrder(_)
PersonOrder(txs) ==
    IF txs = <<>> THEN <<>>
    ELSE [i \in 1..Len(txs[1].shares) |-> txs[1].shares[i].name] \o PersonOrder(Tail(txs))

\* the shares of `person` as the nested forEach visits them, each with the
\* transaction it belongs to
RECURSIVE SharesOf(_, _)
SharesOf(txs, person) ==
    IF txs = <<>> THEN <<>>
    ELSE [i \in 1..Len(SelectSeq(txs[1].shares, LAMBDA s : s.name = person)) |->
             [transaction |-> txs[1],
              amount |-> SelectSeq(txs[1].shares, LAMBDA s : s.name = person)[i].amount]]
         \o SharesOf(Tail(txs), person)

\* transaction.shares.find(s => s.name === person).amount
PersonShareAmount(transaction, person) ==
    transaction.shares[CHOOSE i \in 1..Len(transaction.shares) :
                           /\ transaction.shares[i].name = person
                           /\ \A j \in 1..(i - 1) : transaction.shares[j].name # person].amount

\* two counters kept under one key: key -> [amount, count]
AmountAndCount(amounts, counts) ==
    [i \in 1..Len(amounts) |->
        <<amounts[i][1], [amount |-> amounts[i][2], count |-> counts[i][2]]>>]

\* pattern.categoryBreakdown: category -> { amount, count } over the shares
CategoryBreakdown(paid) ==
    AmountAndCount(
        Tally(paid, [i \in 1..Len(paid) |-> paid[i].transaction.category],
              [i \in 1..Len(paid) |-> Abs(paid[i].amount)], <<>>),
        Tally(paid, [i \in 1..Len(paid) |-> paid[i].transaction.category],
              [i \in 1..Len(paid) |-> 1], <<>>))

\* pattern.preferredStores: per store the transactions with a share of the
\* person, largest totalSpent first, at most 10
PreferredStores(personTransactions, person, storeMapping) ==
    The({Slice(StableSort([i \in 1..Len(spent) |->
                              [store |-> spent[i][1], frequency |-> visits[i][2],
                               totalSpent |-> spent[i][2]]],
                          [i \in 1..Len(spent) |-> 0 - spent[i][2]]),
               0, 10) :
           spent \in {Tally(personTransactions,
                            [i \in 1..Len(personTransactions) |->
                                getCanonicalStoreName(personTransactions[i].description,
                                                      storeMapping)],
                            [i \in 1..Len(personTransactions) |->
                                Abs(PersonShareAmount(personTransactions[i], person))],
                            <<>>)},
           visits \in {Tally(personTransactions,
                             [i \in 1..Len(personTransactions) |->
                                 getCanonicalStoreName(personTransactions[i].description,
                                                       storeMapping)],
                             [i \in 1..Len(personTransactions) |-> 1], <<>>)}})

\* the PaymentPattern of one person
PaymentPattern(person, paid, personTransactions, storeMapping) ==
    [person |-> person,
     categoryBreakdown |-> CategoryBreakdown(paid),
     preferredStores |-> PreferredStores(personTransactions, person, storeMapping),
     averageTransactionSize |->
         Average(SumSeq([i \in 1..Len(paid) |-> Abs(paid[i].amount)]),
                 Len(personTransactions)),
     paymentFrequency |->
         Tally(paid, [i \in 1..Len(paid) |-> DayNameOf(paid[i].transaction.date)],
               [i \in 1..Len(paid) |-> 1], <<>>),
     monthlySpending |->
         Tally(paid, [i \in 1..Len(paid) |-> FormatMonth(paid[i].transaction.date)],
               [i \in 1..Len(paid) |-> Abs(paid[i].amount)], <<>>)]

PaymentPatternOf(person, txs, storeMapping) ==
    The({PaymentPattern(person, paid, personTransactions, storeMapping) :
           paid \in {SharesOf(txs, person)},
           personTransactions \in
               {SelectSeq(txs, LAMBDA t :
                    \E i \in 1..Len(t.shares) : t.shares[i].name = person)}})

PaymentPatternsWith(txs, storeMapping) ==
    The({[p \in 1..Len(people) |-> PaymentPatternOf(people[p], txs, storeMapping)] :
           people \in {Unique(PersonOrder(txs), {})}})

\* the catch block returns []
getPaymentPatterns(txs, mappings) ==
    IF FormatThrows(txs) THEN <<>>
    ELSE The({PaymentPatternsWith(txs, storeMapping) :
                storeMapping \in {createStoreMapping(mappings)}})

----------------------------------------------------------------------------
(* AdvancedAnalyticsService.getSpendingHeatmap                             *)

\* startOfWeek(date): the Sunday on or before the day
StartOfWeekDay(days) == days - DayOfWeek(days)

\* getWeek(date) with weeks from Sunday and week 1 holding 1 January; NaN on
\* an Invalid Date
getWeek(date) ==
    IF ~IsValidDate(date) THEN NaN
    ELSE The({IF StartOfWeekDay(days) >= StartOfWeekDay(DaysFromCivil(year + 1, 1, 1))
              THEN Num(1)
              ELSE Num((StartOfWeekDay(days)
                          - StartOfWeekDay(DaysFromCivil(year, 1, 1))) \div 7 + 1) :
                days \in {ParseDate(date)},
                year \in {ParseDigits(SubSeq(date, 1, 4), 0)}})

\* transactions.filter(t => t.date >= dateRange.start && t.date <= dateRange.end);
\* dateRange is <<>> when the argument is absent
InDateRange(txs, dateRange) ==
    IF dateRange = <<>> THEN txs
    ELSE SelectSeq(txs, LAMBDA t : /\ ~LexLess(t.date, dateRange.start)
                                   /\ ~LexLess(dateRange.end, t.date))

\* dailyData after one more transaction
AddDaily(dailyData, transaction) ==
    IF HasKey(dailyData, transaction.date)
    THEN MapSet(dailyData, transaction.date,
             [MapGet(dailyData, transaction.date) EXCEPT
                 !.amount = @ + transaction.cost,
                 !.transactionCount = @ + 1,
                 !.categories = IF Contains(@, transaction.category) THEN @
                                ELSE Append(@, transaction.category)])
    ELSE MapSet(dailyData, transaction.date,
             [date |-> transaction.date,
              amount |-> transaction.cost,
              transactionCount |-> 1,
              categories |-> <<transaction.category>>,
              dayOfWeek |-> DayNameOf(transaction.date),
              weekOfYear |-> getWeek(transaction.date)])

RECURSIVE DailyData(_, _)
DailyData(txs, dailyData) ==
    IF txs = <<>> THEN dailyData
    ELSE The({DailyData(Tail(txs), next) : next \in {AddDaily(dailyData, txs[1])}})

\* Array.from(dailyData.values()).sort((a, b) => a.date.localeCompare(b.date));
\* nothing in the try block throws on an Invalid Date
getSpendingHeatmap(txs, dateRange) ==
    The({StableSort([i \in 1..Len(dailyData) |-> dailyData[i][2]],
                    [i \in 1..Len(dailyData) |->
                        Cardinality({j \in 1..Len(dailyData) :
                            LexLess(dailyData[j][1], dailyData[i][1])})]) :
           dailyData \in {DailyData(InDateRange(txs, dateRange), <<>>)}})

----------------------------------------------------------------------------
(* Inputs                                                                  *)

Mayuri == <<"M","a","y","u","r","i">>

MayuriStore == <<"M","a","y","u","r","i"," ","S","t","o","r","e">>

MayuriLower == <<"m","a","y","u","r","i">>

Mayurii == <<"M","a","y","u","r","i","i">>

Costco == <<"C","o","s","t","c","o">>

NameA == <<"A">>

NameB == <<"B">>

NameC == <<"C">>

Date0224 == <<"2","0","2","5","-","0","2","-","2","4">>

Date0225 == <<"2","0","2","5","-","0","2","-","2","5">>

Date0223 == <<"2","0","2","5","-","0","2","-","2","3">>

Date0301 == <<"2","0","2","5","-","0","3","-","0","1">>

Date0101 == <<"2","0","2","5","-","0","1","-","0","1">>

\* a date cell that neither parseISO nor new Date can read: month 13
Date1301 == <<"2","0","2","5","-","1","3","-","0","1">>

\* AnalysisFilters with every field absent
NoFilters == [startDate |-> <<>>, endDate |-> <<>>, people |-> <<>>,
              categories |-> <<>>, stores |-> <<>>]

Tx(date, description, category, cost, shares) ==
    [date |-> date, description |-> description, category |-> category,
     cost |-> cost, currency |-> "USD", shares |-> shares]

Share(name, amount) == [name |-> name, amount |-> amount]

\* the two transactions of the end-to-end scenario (amounts in cents)
ScenarioTx1 ==
    Tx(Date0224, Mayuri, "Groceries", 4256, <<Share("A", 2128), Share("B", -2128)>>)

ScenarioTx2 ==
    Tx(Date0225, MayuriStore, "Groceries", 2762, <<Share("A", 1381), Share("B", -1381)>>)

Scenario == <<ScenarioTx1, ScenarioTx2>>

\* a transaction of which only the description matters
DescTx(description) == Tx(Date0224, description, "Groceries", 100, <<Share("A", 100)>>)

NotCalled == [op |-> "none"]

----------------------------------------------------------------------------
(* SpecStores: GET /api/stores/suggestions on an uploaded transaction list *)

MaxStoreTx == 3

\* two descriptions made of punctuation only
Dashes == <<"-", "-">>

Stars == <<"*", "*">>

StoreTxPool ==
    {ScenarioTx1, ScenarioTx2, DescTx(MayuriLower), DescTx(Mayurii), DescTx(Costco),
     DescTx(Dashes), DescTx(Stars)}

InitStores ==
    /\ transactions \in SeqUpTo(StoreTxPool, MaxStoreTx)
    /\ storeMappings = <<>>
    /\ filters = NoFilters
    /\ tz = 0
    /\ pc = "start"
    /\ out = NotCalled

AnalyzeSimilarStores ==
    /\ pc = "start"
    /\ out' = [op |-> "analyzeSimilarStores",
               suggestions |-> analyzeSimilarStores(transactions)]
    /\ pc' = "done"
    /\ UNCHANGED <<transactions, storeMappings, filters, tz>>

NextStores == AnalyzeSimilarStores

SpecStores == InitStores /\ [][NextStores]_vars

----------------------------------------------------------------------------
(* SpecMappings: applyStoreMappings, and its result mapped once more       *)

MaxMapTx == 2

MaxVariations == 1

MapNames == {NameA, NameB, NameC}

MapKeys == {NameA, NameB}

\* objects with distinct keys out of MapKeys, in either insertion order
MappingsOver(keys, variationLists) ==
    {m \in SeqUpTo(keys \X variationLists, Cardinality(keys)) :
        \A i, j \in 1..Len(m) : i # j => m[i][1] # m[j][1]}

InitMappings ==
    /\ transactions \in SeqUpTo({DescTx(n) : n \in MapNames}, MaxMapTx)
    /\ storeMappings \in MappingsOver(MapKeys, SeqUpTo(MapNames, MaxVariations))
    /\ filters = NoFilters
    /\ tz = 0
    /\ pc = "start"
    /\ out = NotCalled

ApplyStoreMappings ==
    /\ pc = "start"
    /\ out' = [op |-> "applyStoreMappings",
               updated |-> applyStoreMappings(transactions, storeMappings)]
    /\ pc' = "called"
    /\ UNCHANGED <<transactions, storeMappings, filters, tz>>

\* the same mappings applied to what the first call returned
ReapplyStoreMappings ==
    /\ pc = "called"
    /\ out.op = "applyStoreMappings"
    /\ out' = [op |-> "reapplyStoreMappings",
               once |-> out.updated,
               twice |-> applyStoreMappings(out.updated, storeMappings)]
    /\ pc' = "done"
    /\ UNCHANGED <<transactions, storeMappings, filters, tz>>

NextMappings == ApplyStoreMappings \/ ReapplyStoreMappings

SpecMappings == InitMappings /\ [][NextMappings]_vars

----------------------------------------------------------------------------
(* SpecGroups: mergeGroups and splitGroup on groups that satisfy the       *)
(* StoreGrouping invariant                                                 *)

MaxGroupTx == 2

MaxGroupVariations == 2

\* canonicalName not among the variations, variations pairwise distinct
IsStoreGrouping(group) ==
    /\ ~Contains(group.variations, group.canonicalName)
    /\ \A i, j \in 1..Len(group.variations) :
           i # j => group.variations[i] # group.variations[j]

GroupPool ==
    {group \in [canonicalName : MapNames,
                variations : SeqUpTo(MapNames, MaxGroupVariations)] :
        IsStoreGrouping(group)}

InitGroups ==
    /\ transactions \in SeqUpTo({DescTx(n) : n \in MapNames}, MaxGroupTx)
    /\ storeMappings = <<>>
    /\ filters = NoFilters
    /\ tz = 0
    /\ pc = "start"
    /\ out = NotCalled

MergeGroups ==
    /\ pc = "start"
    /\ \E group1, group2 \in GroupPool :
           out' = [op |-> "mergeGroups", group1 |-> group1, group2 |-> group2,
                   result |-> mergeGroups(group1, group2, transactions)]
    /\ pc' = "done"
    /\ UNCHANGED <<transactions, storeMappings, filters, tz>>

SplitGroup ==
    /\ pc = "start"
    /\ \E group \in GroupPool, variationsToSplit \in SeqUpTo(MapNames, MaxGroupVariations) :
           out' = [op |-> "splitGroup", group |-> group,
                   variationsToSplit |-> variationsToSplit,
                   result |-> splitGroup(group, variationsToSplit, transactions)]
    /\ pc' = "done"
    /\ UNCHANGED <<transactions, storeMappings, filters, tz>>

NextGroups == MergeGroups \/ SplitGroup

SpecGroups == InitGroups /\ [][NextGroups]_vars

----------------------------------------------------------------------------
(* SpecAnalysis: GET /api/analysis on a session's transactions and mappings *)

MaxAnalysisTx == 2

MaxPageSize == 2

\* Sunday 23 Feb, Monday 24 Feb (twice) and Saturday 1 Mar 2025; one refund
AnalysisTxPool ==
    {Tx(Date0223, NameA, "Groceries", 100, <<Share("A", 50), Share("B", -50)>>),
     Tx(Date0224, NameB, "Dining", 250, <<Share("A", 250)>>),
     Tx(Date0224, NameA, "Dining", 70, <<Share("B", -70), Share("A", 70)>>),
     Tx(Date0301, NameC, "Groceries", -30, <<Share("B", -30)>>)}

AnalysisMappings ==
    {<<>>,
     <<<<NameA, <<>>>>>>,
     <<<<NameA, <<NameB>>>>>>,
     <<<<NameA, <<NameC>>>>, <<NameB, <<>>>>>>,
     <<<<NameB, <<NameA>>>>>>,
     <<<<NameA, <<NameB>>>>, <<NameC, <<NameB>>>>>>}

AnalysisFilters ==
    {NoFilters,
     [NoFilters EXCEPT !.startDate = Date0224],
     [NoFilters EXCEPT !.endDate = Date0224],
     [NoFilters EXCEPT !.startDate = Date0224, !.endDate = Date0224],
     [NoFilters EXCEPT !.categories = <<"Groceries">>],
     [NoFilters EXCEPT !.stores = <<NameA>>],
     [NoFilters EXCEPT !.stores = <<NameC>>],
     [NoFilters EXCEPT !.stores = <<NameB, NameA>>],
     [NoFilters EXCEPT !.people = <<"B">>],
     [startDate |-> Date0223, endDate |-> <<>>, people |-> <<"A">>,
      categories |-> <<"Dining">>, stores |-> <<NameA>>]}

InitAnalysis ==
    /\ transactions \in SeqUpTo(AnalysisTxPool, MaxAnalysisTx)
    /\ storeMappings \in AnalysisMappings
    /\ filters \in AnalysisFilters
    /\ tz = 0
    /\ pc = "start"
    /\ out = NotCalled

\* the private filterTransactions, as every entry point calls it first
FilterTransactions ==
    /\ pc = "start"
    /\ out' = [op |-> "filterTransactions",
               filtered |-> filterTransactions(transactions, filters, storeMappings)]
    /\ pc' = "done"
    /\ UNCHANGED <<transactions, storeMappings, filters, tz>>

\* groupBy=time; the server's time zone is whatever the process runs in
GetSpendingOverTime ==
    /\ pc = "start"
    /\ \E interval \in {"day", "week", "month"}, zone \in {0, -1} :
          /\ tz' = zone
          /\ out' = [op |-> "getSpendingOverTime", interval |-> interval,
                     data |-> getSpendingOverTime(transactions, filters, storeMappings,
                                                  interval, zone)]
    /\ pc' = "done"
    /\ UNCHANGED <<transactions, storeMappings, filters>>

GetSpendingBy ==
    /\ pc = "start"
    /\ \E dimension \in {"category", "store", "person"} :
          out' = [op |-> "getSpendingBy", dimension |-> dimension,
                  data |-> getSpendingBy(transactions, filters, storeMappings, dimension)]
    /\ pc' = "done"
    /\ UNCHANGED <<transactions, storeMappings, filters, tz>>

\* the first page of the transaction list
GetDetailedTransactions ==
    /\ pc = "start"
    /\ \E pageSize \in 1..MaxPageSize :
          out' = [op |-> "getDetailedTransactions", pageSize |-> pageSize,
                  pages |-> <<getDetailedTransactions(transactions, filters,
                                                      storeMappings, 1, pageSize)>>]
    /\ pc' = "paging"
    /\ UNCHANGED <<transactions, storeMappings, filters, tz>>

PageCount(total, pageSize) == (total + pageSize - 1) \div pageSize

\* the client asks for the next page, up to one page past the last
NextPage ==
    /\ pc = "paging"
    /\ Len(out.pages) <= PageCount(out.pages[1].total, out.pageSize)
    /\ out' = [out EXCEPT !.pages =
                  Append(@, getDetailedTransactions(transactions, filters, storeMappings,
                                                    Len(out.pages) + 1, out.pageSize))]
    /\ UNCHANGED <<transactions, storeMappings, filters, tz, pc>>

NextAnalysis ==
    \/ FilterTransactions
    \/ GetSpendingOverTime
    \/ GetSpendingBy
    \/ GetDetailedTransactions
    \/ NextPage

SpecAnalysis == InitAnalysis /\ [][NextAnalysis]_vars

----------------------------------------------------------------------------
(* SpecBalance: GET /api/advanced-analytics/balance                        *)

MaxBalanceTx == 3

BalanceTxPool ==
    {Tx(Date0224, NameA, "Groceries", 100, <<Share("A", 50), Share("B", -50)>>),
     Tx(Date0223, NameB, "Dining", 250, <<Share("B", 250)>>),
     Tx(Date0301, NameA, "Dining", 70, <<Share("C", -50), Share("A", 70)>>),
     Tx(Date0224, NameC, "Groceries", 30, <<Share("A", -50), Share("A", 20)>>),
     Tx(Date0223, NameC, "Groceries", 0, <<>>),
     Tx(Date0301, NameC, "Groceries", 0, <<>>)}

InitBalance ==
    /\ transactions \in SeqUpTo(BalanceTxPool, MaxBalanceTx)
    /\ storeMappings = <<>>
    /\ filters = NoFilters
    /\ tz = 0
    /\ pc = "start"
    /\ out = NotCalled

GetBalanceAnalytics ==
    /\ pc = "start"
    /\ out' = [op |-> "getBalanceAnalytics", balance |-> getBalanceAnalytics(transactions)]
    /\ pc' = "done"
    /\ UNCHANGED <<transactions, storeMappings, filters, tz>>

NextBalance == GetBalanceAnalytics

SpecBalance == InitBalance /\ [][NextBalance]_vars

----------------------------------------------------------------------------
(* SpecBudget: GET /api/advanced-analytics/budget-intelligence             *)

MaxBudgetTx == 3

BudgetTxPool ==
    {Tx(Date0101, NameA, "Groceries", 10, <<Share("A", 10)>>),
     Tx(Date0223, NameA, "Groceries", 30, <<Share("A", 30)>>),
     Tx(Date0224, NameA, "Groceries", 10, <<Share("A", 10)>>),
     Tx(Date0301, NameA, "Groceries", 10, <<Share("A", 10)>>),
     Tx(Date0101, NameB, "Dining", 10, <<Share("A", 10)>>),
     Tx(Date0223, NameB, "Dining", 0, <<Share("A", 0)>>),
     Tx(Date0301, NameB, "Dining", -10, <<Share("A", -10)>>)}

InitBudget ==
    /\ transactions \in SeqUpTo(BudgetTxPool, MaxBudgetTx)
    /\ storeMappings = <<>>
    /\ filters = NoFilters
    /\ tz = 0
    /\ pc = "start"
    /\ out = NotCalled

GetBudgetIntelligence ==
    /\ pc = "start"
    /\ out' = [op |-> "getBudgetIntelligence", budget |-> getBudgetIntelligence(transactions)]
    /\ pc' = "done"
    /\ UNCHANGED <<transactions, storeMappings, filters, tz>>

NextBudget == GetBudgetIntelligence

SpecBudget == InitBudget /\ [][NextBudget]_vars

----------------------------------------------------------------------------
(* SpecStoreAnalytics: GET /api/advanced-analytics/stores                  *)

MaxVisitTx == 2

InitStoreAnalytics ==
    /\ transactions \in SeqUpTo(AnalysisTxPool, MaxVisitTx)
    /\ storeMappings \in AnalysisMappings
    /\ filters = NoFilters
    /\ tz = 0
    /\ pc = "start"
    /\ out = NotCalled

GetStoreAnalytics ==
    /\ pc = "start"
    /\ out' = [op |-> "getStoreAnalytics",
               stores |-> getStoreAnalytics(transactions, storeMappings)]
    /\ pc' = "done"
    /\ UNCHANGED <<transactions, storeMappings, filters, tz>>

NextStoreAnalytics == GetStoreAnalytics

SpecStoreAnalytics == InitStoreAnalytics /\ [][NextStoreAnalytics]_vars

----------------------------------------------------------------------------
(* SpecTrends: GET /api/advanced-analytics/categories on one transaction    *)
(* per month                                                               *)

MaxTrendMonths == 6

TrendAmounts == {-10, 20}

\* the first day of month m of 2025, m in 1..9
MonthDate(m) == <<"2", "0", "2", "5", "-", "0", Digits[m + 1], "-", "0", "1">>

\* one transaction per month 1..Len(amounts): in month order, in reverse
\* order, or in month order with the categories alternating
TrendTransactions(amounts, layout) ==
    [i \in 1..Len(amounts) |->
        LET m == IF layout = "reversed" THEN Len(amounts) + 1 - i ELSE i
        IN Tx(MonthDate(m), NameA,
              IF layout = "alternating" /\ m % 2 = 0 THEN "Dining" ELSE "Groceries",
              amounts[m], <<Share("A", amounts[m])>>)]

InitTrends ==
    /\ \E amounts \in SeqUpTo(TrendAmounts, MaxTrendMonths) :
       \E layout \in {"forward", "reversed", "alternating"} :
           transactions = TrendTransactions(amounts, layout)
    /\ storeMappings = <<>>
    /\ filters = NoFilters
    /\ tz = 0
    /\ pc = "start"
    /\ out = NotCalled

GetCategoryTrends ==
    /\ pc = "start"
    /\ out' = [op |-> "getCategoryTrends",
               trends |-> getCategoryTrends(transactions, storeMappings)]
    /\ pc' = "done"
    /\ UNCHANGED <<transactions, storeMappings, filters, tz>>

NextTrends == GetCategoryTrends

SpecTrends == InitTrends /\ [][NextTrends]_vars

----------------------------------------------------------------------------
(* SpecSession: POST /api/stores/mappings, any number of times, on the      *)
(* session that an upload has filled.  out keeps the transactions as they   *)
(* were uploaded and counts the posts.                                      *)

MaxSessionTx == 2

MaxPosts == 2

\* request bodies: objects of canonical names with their variations
PostedMappings ==
    {<<>>,
     <<<<NameA, <<NameB>>>>>>,
     <<<<NameB, <<NameA>>>>>>,
     <<<<NameC, <<NameA>>>>>>,
     <<<<NameA, <<NameC>>>>, <<NameB, <<>>>>>>}

\* req.session.data = { transactions: results, storeMappings: {} }
InitSession ==
    /\ transactions \in SeqUpTo({DescTx(n) : n \in MapNames}, MaxSessionTx)
    /\ storeMappings = <<>>
    /\ filters = NoFilters
    /\ tz = 0
    /\ pc = "uploaded"
    /\ out = [op |-> "upload", uploaded |-> transactions, posts |-> 0]

\* the handler of POST /mappings: the session's transactions are replaced by
\* what applyStoreMappings makes of them, the session's mappings by the body
PostMappings ==
    /\ pc = "uploaded"
    /\ out.posts < MaxPosts
    /\ \E mappings \in PostedMappings :
          /\ transactions' = applyStoreMappings(transactions, mappings)
          /\ storeMappings' = mappings
    /\ out' = [out EXCEPT !.op = "postMappings", !.posts = @ + 1]
    /\ UNCHANGED <<filters, tz, pc>>

NextSession == PostMappings

SpecSession == InitSession /\ [][NextSession]_vars

----------------------------------------------------------------------------
(* SpecRefine: the RefineDataPage.  out.groups is the page's groups state,  *)
(* loaded from GET /api/stores/suggestions; the actions are the handlers    *)
(* the StoreGroupEditor of a group calls, and the page's handleSave.        *)

MaxRefineTx == 3

MaxEdits == 3

RefineTxPool ==
    {ScenarioTx1, DescTx(MayuriLower), DescTx(Mayurii), DescTx(Costco)}

\* String.prototype.trim, of the space character
RECURSIVE TrimStart(_)
TrimStart(text) ==
    IF text # <<>> /\ text[1] = " " THEN TrimStart(Tail(text)) ELSE text

RECURSIVE TrimEnd(_)
TrimEnd(text) ==
    IF text # <<>> /\ text[Len(text)] = " "
    THEN TrimEnd(SubSeq(text, 1, Len(text) - 1))
    ELSE text

Trim(text) == TrimStart(TrimEnd(text))

\* what the text field of a group may hold when its save button is pressed
EditedNames(groups) ==
    {groups[g].canonicalName : g \in 1..Len(groups)}
        \cup {Append(groups[g].canonicalName, " ") : g \in 1..Len(groups)}
        \cup {NameA, <<" ">>}

\* the orders in which the checkboxes of the split dialog may have been ticked
Selections(variations) ==
    {selected \in SeqUpTo(Range(variations), Len(variations)) :
        /\ selected # <<>>
        /\ \A i, j \in 1..Len(selected) : selected[i] = selected[j] => i = j}

\* loadStoreGroupings has set the groups to the suggestions
InitRefine ==
    /\ transactions \in SeqUpTo(RefineTxPool, MaxRefineTx)
    /\ storeMappings = <<>>
    /\ filters = NoFilters
    /\ tz = 0
    /\ pc = "refine"
    /\ out = [op |-> "refine", groups |-> analyzeSimilarStores(transactions), edits |-> 0]

\* prevGroups.map(group => group.canonicalName === oldName ? newGroup : group)
handleUpdateGroup(groups, oldName, newGroup) ==
    [g \in 1..Len(groups) |->
        IF groups[g].canonicalName = oldName THEN newGroup ELSE groups[g]]

\* prevGroups.filter(group => group.canonicalName !== canonicalName)
handleDeleteGroup(groups, canonicalName) ==
    FilterIdx(groups, {g \in 1..Len(groups) : groups[g].canonicalName # canonicalName}, 1)

handleMergeGroups(groups, group1, group2) ==
    LET remainingGroups ==
            FilterIdx(groups,
                      {g \in 1..Len(groups) :
                          /\ groups[g].canonicalName # group1.canonicalName
                          /\ groups[g].canonicalName # group2.canonicalName}, 1)
        allNames == <<group1.canonicalName>> \o group1.variations
                        \o <<group2.canonicalName>> \o group2.variations
        newGroup ==
            [canonicalName |-> group1.canonicalName,
             variations |-> FilterIdx(allNames,
                                      {n \in 1..Len(allNames) :
                                          allNames[n] # group1.canonicalName}, 1)]
    IN Append(remainingGroups, newGroup)

handleSplitGroup(groups, group, variationsToSplit) ==
    LET updatedOriginalGroup ==
            [canonicalName |-> group.canonicalName,
             variations |-> FilterIdx(group.variations,
                                      {v \in 1..Len(group.variations) :
                                          ~Contains(variationsToSplit, group.variations[v])},
                                      1)]
        newGroup == [canonicalName |-> variationsToSplit[1],
                     variations |-> Tail(variationsToSplit)]
    IN handleDeleteGroup(groups, group.canonicalName)
           \o <<updatedOriginalGroup, newGroup>>

\* groups.forEach(group => { mappings[group.canonicalName] = group.variations })
RECURSIVE MappingsOf(_, _)
MappingsOf(groups, mappings) ==
    IF groups = <<>> THEN mappings
    ELSE MappingsOf(Tail(groups),
                    MapSet(mappings, groups[1].canonicalName, groups[1].variations))

\* the save button of a group's text field: StoreGroupEditor.handleSave
RenameGroup ==
    /\ pc = "refine"
    /\ out.edits < MaxEdits
    /\ \E g \in 1..Len(out.groups), editedName \in EditedNames(out.groups) :
          /\ Trim(editedName) # <<>>
          /\ editedName # out.groups[g].canonicalName
          /\ out' = [out EXCEPT
                        !.op = "rename",
                        !.groups = handleUpdateGroup(
                                       @, out.groups[g].canonicalName,
                                       [out.groups[g] EXCEPT
                                           !.canonicalName = Trim(editedName)]),
                        !.edits = @ + 1]
    /\ UNCHANGED <<transactions, storeMappings, filters, tz, pc>>

\* the delete icon of a variation's chip: handleRemoveVariation
RemoveVariation ==
    /\ pc = "refine"
    /\ out.edits < MaxEdits
    /\ \E g \in 1..Len(out.groups) :
          \E variation \in Range(out.groups[g].variations) :
             out' = [out EXCEPT
                        !.op = "removeVariation",
                        !.groups = handleUpdateGroup(
                                       @, out.groups[g].canonicalName,
                                       [out.groups[g] EXCEPT
                                           !.variations =
                                               FilterIdx(@, {v \in 1..Len(@) :
                                                               @[v] # variation}, 1)]),
                        !.edits = @ + 1]
    /\ UNCHANGED <<transactions, storeMappings, filters, tz, pc>>

\* the delete icon of a group
DeleteGroup ==
    /\ pc = "refine"
    /\ out.edits < MaxEdits
    /\ \E g \in 1..Len(out.groups) :
          out' = [out EXCEPT
                     !.op = "delete",
                     !.groups = handleDeleteGroup(@, out.groups[g].canonicalName),
                     !.edits = @ + 1]
    /\ UNCHANGED <<transactions, storeMappings, filters, tz, pc>>

\* handleMergeConfirm with a group picked in the merge dialog, which lists the
\* groups of another canonical name
MergeWithGroup ==
    /\ pc = "refine"
    /\ out.edits < MaxEdits
    /\ \E g, selectedGroup \in 1..Len(out.groups) :
          /\ out.groups[selectedGroup].canonicalName # out.groups[g].canonicalName
          /\ out' = [out EXCEPT
                        !.op = "merge",
                        !.groups = handleMergeGroups(@, out.groups[g],
                                                     out.groups[selectedGroup]),
                        !.edits = @ + 1]
    /\ UNCHANGED <<transactions, storeMappings, filters, tz, pc>>

\* handleSplitConfirm with at least one variation ticked
SplitVariations ==
    /\ pc = "refine"
    /\ out.edits < MaxEdits
    /\ \E g \in 1..Len(out.groups) :
          \E selectedVariations \in Selections(out.groups[g].variations) :
             out' = [out EXCEPT
                        !.op = "split",
                        !.groups = handleSplitGroup(@, out.groups[g], selectedVariations),
                        !.edits = @ + 1]
    /\ UNCHANGED <<transactions, storeMappings, filters, tz, pc>>

\* "Confirm & View Dashboard": handleSave posts the mappings object, the server
\* applies it to the session
SaveMappings ==
    /\ pc = "refine"
    /\ \E mappings \in {MappingsOf(out.groups, <<>>)} :
          /\ transactions' = applyStoreMappings(transactions, mappings)
          /\ storeMappings' = mappings
    /\ out' = [out EXCEPT !.op = "save"]
    /\ pc' = "saved"
    /\ UNCHANGED <<filters, tz>>

NextRefine ==
    \/ RenameGroup
    \/ RemoveVariation
    \/ DeleteGroup
    \/ MergeWithGroup
    \/ SplitVariations
    \/ SaveMappings

SpecRefine == InitRefine /\ [][NextRefine]_vars

----------------------------------------------------------------------------
(* SpecDashboard: the DashboardPage after its first load.  transactions and *)
(* storeMappings are the server's session, filters is what the Filters      *)
(* component has selected, out is the page's state: the data shown, the     *)
(* loadDashboardData calls still running (each with the filters it was      *)
(* called with and the request it awaits) and the page requests in flight.  *)

MaxFilterChanges == 2

MaxPageChanges == 1

\* the page size of the first load and of the table (10), on the scale of the
\* session's three transactions
DashboardPageSize == 2

\* TablePagination's rowsPerPageOptions, on the same scale
RowsPerPageOptions == {DashboardPageSize, DashboardPageSize + 1}

DashboardSessions ==
    {<<Tx(Date0223, NameA, "Groceries", 100, <<Share("A", 50), Share("B", -50)>>),
       Tx(Date0224, NameB, "Dining", 250, <<Share("A", 250)>>),
       Tx(Date0301, NameC, "Groceries", -30, <<Share("B", -30)>>)>>,
     <<Tx(Date0224, NameB, "Dining", 250, <<Share("A", 250)>>),
       Tx(Date0224, NameA, "Dining", 70, <<Share("B", -70), Share("A", 70)>>),
       Tx(Date0223, NameA, "Groceries", 100, <<Share("A", 50), Share("B", -50)>>)>>}

DashboardFilters ==
    {NoFilters,
     [NoFilters EXCEPT !.categories = <<"Groceries">>],
     [NoFilters EXCEPT !.categories = <<"Dining">>]}

RemoveAt(s, i) == SubSeq(s, 1, i - 1) \o SubSeq(s, i + 1, Len(s))

\* loadMetadata has run loadDashboardData({}) to its end
InitDashboard ==
    /\ transactions \in DashboardSessions
    /\ storeMappings \in {<<>>, <<<<NameA, <<NameB>>>>>>}
    /\ filters = NoFilters
    /\ tz = 0
    /\ pc = "dashboard"
    /\ out = [op |-> "dashboard",
              timelineData |-> getSpendingOverTime(transactions, NoFilters, storeMappings,
                                                   "day", 0),
              categoryData |-> getSpendingBy(transactions, NoFilters, storeMappings,
                                             "category"),
              storeData |-> getSpendingBy(transactions, NoFilters, storeMappings, "store"),
              rows |-> getDetailedTransactions(transactions, NoFilters, storeMappings,
                                               1, DashboardPageSize).transactions,
              total |-> Len(transactions),
              page |-> 0,
              rowsPerPage |-> DashboardPageSize,
              calls |-> <<>>,
              pageRequests |-> <<>>,
              filterChanges |-> 0,
              pageChanges |-> 0]

\* the effect of Filters fires onFiltersChange: handleFiltersChange starts
\* loadDashboardData(filters), which sends its first request
ChangeFilters ==
    /\ pc = "dashboard"
    /\ out.filterChanges < MaxFilterChanges
    /\ \E selected \in DashboardFilters \ {filters} :
          /\ filters' = selected
          /\ out' = [out EXCEPT
                        !.calls = Append(@, [filters |-> selected, step |-> "time"]),
                        !.filterChanges = @ + 1]
    /\ UNCHANGED <<transactions, storeMappings, tz, pc>>

\* a call's await of getSpendingAnalysis(filters, 'time', 'day') returns
ReceiveTimeline ==
    /\ pc = "dashboard"
    /\ \E c \in 1..Len(out.calls) :
          /\ out.calls[c].step = "time"
          /\ out' = [out EXCEPT
                        !.timelineData =
                            getSpendingOverTime(transactions, out.calls[c].filters,
                                                storeMappings, "day", tz),
                        !.calls[c].step = "category"]
    /\ UNCHANGED <<transactions, storeMappings, filters, tz, pc>>

ReceiveCategories ==
    /\ pc = "dashboard"
    /\ \E c \in 1..Len(out.calls) :
          /\ out.calls[c].step = "category"
          /\ out' = [out EXCEPT
                        !.categoryData =
                            getSpendingBy(transactions, out.calls[c].filters,
                                          storeMappings, "category"),
                        !.calls[c].step = "store"]
    /\ UNCHANGED <<transactions, storeMappings, filters, tz, pc>>

ReceiveStores ==
    /\ pc = "dashboard"
    /\ \E c \in 1..Len(out.calls) :
          /\ out.calls[c].step = "store"
          /\ out' = [out EXCEPT
                        !.storeData =
                            getSpendingBy(transactions, out.calls[c].filters,
                                          storeMappings, "store"),
                        !.calls[c].step = "transactions"]
    /\ UNCHANGED <<transactions, storeMappings, filters, tz, pc>>

\* the last await of a call returns: page 1 of the call's filters
ReceiveTransactions ==
    /\ pc = "dashboard"
    /\ \E c \in 1..Len(out.calls) :
          /\ out.calls[c].step = "transactions"
          /\ \E result \in {getDetailedTransactions(transactions, out.calls[c].filters,
                                                    storeMappings, 1, DashboardPageSize)} :
                out' = [out EXCEPT !.rows = result.transactions,
                                   !.total = result.total,
                                   !.calls = RemoveAt(@, c)]
    /\ UNCHANGED <<transactions, storeMappings, filters, tz, pc>>

\* TablePagination's next and previous buttons: handleChangePage, then
\* handlePageChange(newPage + 1, rowsPerPage) sends its request
ChangePage ==
    /\ pc = "dashboard"
    /\ out.pageChanges < MaxPageChanges
    /\ \E newPage \in {out.page - 1, out.page + 1} :
          /\ newPage >= 0
          /\ newPage * out.rowsPerPage < out.total
          /\ out' = [out EXCEPT
                        !.page = newPage,
                        !.pageRequests = Append(@, [page |-> newPage + 1,
                                                    pageSize |-> out.rowsPerPage]),
                        !.pageChanges = @ + 1]
    /\ UNCHANGED <<transactions, storeMappings, filters, tz, pc>>

\* handleChangeRowsPerPage, then handlePageChange(1, newRowsPerPage)
ChangeRowsPerPage ==
    /\ pc = "dashboard"
    /\ out.pageChanges < MaxPageChanges
    /\ \E newRowsPerPage \in RowsPerPageOptions \ {out.rowsPerPage} :
          out' = [out EXCEPT
                     !.rowsPerPage = newRowsPerPage,
                     !.page = 0,
                     !.pageRequests = Append(@, [page |-> 1, pageSize |-> newRowsPerPage]),
                     !.pageChanges = @ + 1]
    /\ UNCHANGED <<transactions, storeMappings, filters, tz, pc>>

\* the await of handlePageChange returns; its request carried the filters {}
ReceivePage ==
    /\ pc = "dashboard"
    /\ \E r \in 1..Len(out.pageRequests) :
          out' = [out EXCEPT
                     !.rows = getDetailedTransactions(transactions, NoFilters, storeMappings,
                                                      out.pageRequests[r].page,
                                                      out.pageRequests[r].pageSize).transactions,
                     !.pageRequests = RemoveAt(@, r)]
    /\ UNCHANGED <<transactions, storeMappings, filters, tz, pc>>

NextDashboard ==
    \/ ChangeFilters
    \/ ReceiveTimeline
    \/ ReceiveCategories
    \/ ReceiveStores
    \/ ReceiveTransactions
    \/ ChangePage
    \/ ChangeRowsPerPage
    \/ ReceivePage

SpecDashboard == InitDashboard /\ [][NextDashboard]_vars

----------------------------------------------------------------------------
(* SpecAnomalies: GET /api/advanced-analytics/budget-intelligence on lists  *)
(* long enough for the anomaly detection: one category of up to            *)
(* MaxAnomalyTx transactions, and one list of MaxFlaggedCategories          *)
(* categories with one outlier each                                        *)

MaxAnomalyTx == 6

MaxFlaggedCategories == 11

AnomalyCosts == {1, 2, 10}

CategoryNames ==
    <<"K01", "K02", "K03", "K04", "K05", "K06", "K07", "K08", "K09", "K10", "K11", "K12">>

\* six transactions of category k: four of 1, one of 2, one of 10 + k
OutlierCategory(k) ==
    [i \in 1..6 |->
        Tx(Date0224, NameA, CategoryNames[k],
           IF i = 3 THEN 10 + k ELSE IF i = 5 THEN 2 ELSE 1, <<>>)]

RECURSIVE OutlierCategories(_)
OutlierCategories(k) ==
    IF k = 0 THEN <<>> ELSE OutlierCategories(k - 1) \o OutlierCategory(k)

InitAnomalies ==
    /\ transactions \in
          {[i \in 1..Len(costs) |-> Tx(Date0224, NameA, "Groceries", costs[i], <<>>)] :
              costs \in SeqUpTo(AnomalyCosts, MaxAnomalyTx)}
          \cup {OutlierCategories(MaxFlaggedCategories)}
    /\ storeMappings = <<>>
    /\ filters = NoFilters
    /\ tz = 0
    /\ pc = "start"
    /\ out = NotCalled

DetectAnomalies ==
    /\ pc = "start"
    /\ out' = [op |-> "getBudgetIntelligence", budget |-> getBudgetIntelligence(transactions)]
    /\ pc' = "done"
    /\ UNCHANGED <<transactions, storeMappings, filters, tz>>

NextAnomalies == DetectAnomalies

SpecAnomalies == InitAnomalies /\ [][NextAnomalies]_vars

----------------------------------------------------------------------------
(* SpecCore: every entry point of the three services called once on a      *)
(* session's transactions and mappings, one of whose date cells may be      *)
(* unreadable.  Each action records what the call returned or threw, and    *)
(* leaves in transactions and storeMappings the arguments as they are after *)
(* the call.                                                                *)

MaxCoreTx == 2

\* Monday 24 Feb and Sunday 23 Feb 2025, and a row with an unreadable date
CoreTxPool ==
    {Tx(Date0224, NameB, "Dining", 250, <<Share("A", 250)>>),
     Tx(Date0223, NameA, "Groceries", 100, <<Share("A", 50), Share("B", -50)>>),
     Tx(Date1301, NameA, "Groceries", 70, <<Share("B", -70)>>)}

CoreMappings == {<<>>, <<<<NameA, <<NameB>>>>>>}

\* no filter, and a category that no transaction has
CoreFilters == {NoFilters, [NoFilters EXCEPT !.categories = <<"Travel">>]}

\* no range, a range holding every date, and a range before every date
CoreDateRanges ==
    {<<>>, [start |-> Date0101, end |-> Date1301], [start |-> Date0101, end |-> Date0101]}

Returned(result) == [threw |-> FALSE, result |-> result]

\* startOfWeek.toISOString() throws a RangeError on an Invalid Date; the
\* method has no try block
SpendingOverTimeThrows(txs, fs, mappings, interval) ==
    interval = "week" /\ FormatThrows(filterTransactions(txs, fs, mappings))

\* (mutant) sort() called on the argument itself
ArgumentSortedInPlace(txs, sorted) == sorted

\* [...transactions].sort(...): sort() orders the array it is called on, the
\* copy made by the spread; the argument keeps its order
ArgumentAfterSortedCopy(txs, sorted) == txs

\* transactions.map(t => ({ ...t, description })): the array and the renamed
\* transactions are new objects; the argument and its elements stay as they were
ArgumentAfterMappedCopy(txs, rewritten) == txs

InitCore ==
    /\ transactions \in SeqUpTo(CoreTxPool, MaxCoreTx)
    /\ storeMappings \in CoreMappings
    /\ filters \in CoreFilters
    /\ tz = 0
    /\ pc = "start"
    /\ out = NotCalled

CallAnalyzeSimilarStores ==
    /\ pc = "start"
    /\ out' = [op |-> "analyzeSimilarStores",
               outcome |-> Returned(analyzeSimilarStores(transactions))]
    /\ pc' = "done"
    /\ UNCHANGED <<transactions, storeMappings, filters, tz>>

CallMergeGroups ==
    /\ pc = "start"
    /\ \E group1 \in {[canonicalName |-> NameA, variations |-> <<NameB>>]},
          group2 \in {[canonicalName |-> NameC, variations |-> <<>>]} :
          \E outcome \in {mergeGroups(group1, group2, transactions)} :
             /\ out' = [op |-> "mergeGroups", outcome |-> outcome]
             /\ transactions' =
                    ArgumentAfterMappedCopy(transactions, outcome.updatedTransactions)
    /\ pc' = "done"
    /\ UNCHANGED <<storeMappings, filters, tz>>

CallSplitGroup ==
    /\ pc = "start"
    /\ \E group \in {[canonicalName |-> NameB, variations |-> <<NameA>>]},
          variationsToSplit \in {<<>>, <<NameA>>} :
          \E outcome \in {splitGroup(group, variationsToSplit, transactions)} :
             /\ out' = [op |-> "splitGroup", variationsToSplit |-> variationsToSplit,
                        outcome |-> outcome]
             /\ transactions' =
                    IF outcome.threw THEN transactions
                    ELSE ArgumentAfterMappedCopy(transactions, outcome.updatedTransactions)
    /\ pc' = "done"
    /\ UNCHANGED <<storeMappings, filters, tz>>

CallApplyStoreMappings ==
    /\ pc = "start"
    /\ \E updated \in {applyStoreMappings(transactions, storeMappings)} :
          /\ out' = [op |-> "applyStoreMappings", outcome |-> Returned(updated)]
          /\ transactions' = ArgumentAfterMappedCopy(transactions, updated)
    /\ pc' = "done"
    /\ UNCHANGED <<storeMappings, filters, tz>>

CallGetSpendingOverTime ==
    /\ pc = "start"
    /\ \E interval \in {"day", "week", "month"} :
          out' = [op |-> "getSpendingOverTime", interval |-> interval,
                  outcome |->
                      IF SpendingOverTimeThrows(transactions, filters, storeMappings,
                                                interval)
                      THEN Thrown("RangeError")
                      ELSE Returned(getSpendingOverTime(transactions, filters,
                                                        storeMappings, interval, tz))]
    /\ pc' = "done"
    /\ UNCHANGED <<transactions, storeMappings, filters, tz>>

CallGetSpendingBy ==
    /\ pc = "start"
    /\ \E dimension \in {"category", "store", "person"} :
          out' = [op |-> "getSpendingBy", dimension |-> dimension,
                  outcome |-> Returned(getSpendingBy(transactions, filters,
                                                     storeMappings, dimension))]
    /\ pc' = "done"
    /\ UNCHANGED <<transactions, storeMappings, filters, tz>>

CallGetDetailedTransactions ==
    /\ pc = "start"
    /\ \E page \in {getDetailedTransactions(transactions, filters, storeMappings,
                                            1, MaxPageSize)} :
          /\ out' = [op |-> "getDetailedTransactions", outcome |-> Returned(page)]
          /\ transactions' = ArgumentAfterMappedCopy(transactions, page.transactions)
    /\ pc' = "done"
    /\ UNCHANGED <<storeMappings, filters, tz>>

CallGetPaymentPatterns ==
    /\ pc = "start"
    /\ out' = [op |-> "getPaymentPatterns",
               outcome |-> Returned(getPaymentPatterns(transactions, storeMappings))]
    /\ pc' = "done"
    /\ UNCHANGED <<transactions, storeMappings, filters, tz>>

CallGetStoreAnalytics ==
    /\ pc = "start"
    /\ out' = [op |-> "getStoreAnalytics",
               outcome |-> Returned(getStoreAnalytics(transactions, storeMappings))]
    /\ pc' = "done"
    /\ UNCHANGED <<transactions, storeMappings, filters, tz>>

CallGetCategoryTrends ==
    /\ pc = "start"
    /\ out' = [op |-> "getCategoryTrends",
               outcome |-> Returned(getCategoryTrends(transactions, storeMappings))]
    /\ pc' = "done"
    /\ UNCHANGED <<transactions, storeMappings, filters, tz>>

CallGetBalanceAnalytics ==
    /\ pc = "start"
    /\ out' = [op |-> "getBalanceAnalytics",
               outcome |-> Returned(getBalanceAnalytics(transactions))]
    /\ transactions' = ArgumentAfterSortedCopy(transactions, SortByDate(transactions))
    /\ pc' = "done"
    /\ UNCHANGED <<storeMappings, filters, tz>>

CallGetSpendingHeatmap ==
    /\ pc = "start"
    /\ \E dateRange \in CoreDateRanges :
          out' = [op |-> "getSpendingHeatmap", dateRange |-> dateRange,
                  outcome |-> Returned(getSpendingHeatmap(transactions, dateRange))]
    /\ pc' = "done"
    /\ UNCHANGED <<transactions, storeMappings, filters, tz>>

CallGetBudgetIntelligence ==
    /\ pc = "start"
    /\ out' = [op |-> "getBudgetIntelligence",
               outcome |-> Returned(getBudgetIntelligence(transactions))]
    /\ pc' = "done"
    /\ UNCHANGED <<transactions, storeMappings, filters, tz>>

NextCore ==
    \/ CallAnalyzeSimilarStores
    \/ CallMergeGroups
    \/ CallSplitGroup
    \/ CallApplyStoreMappings
    \/ CallGetSpendingOverTime
    \/ CallGetSpendingBy
    \/ CallGetDetailedTransactions
    \/ CallGetPaymentPatterns
    \/ CallGetStoreAnalytics
    \/ CallGetCategoryTrends
    \/ CallGetBalanceAnalytics
    \/ CallGetSpendingHeatmap
    \/ CallGetBudgetIntelligence

SpecCore == InitCore /\ [][NextCore]_vars

----------------------------------------------------------------------------
(* Claims about StoreAnalysisService                                       *)

\* no canonical name is listed among the variations of another canonical name
NoChainedNames(mappings) ==
    \A i, j \in 1..Len(mappings) :
        i # j => ~Contains(mappings[j][2], mappings[i][1])

\* C1 (as stated): applying the same mappings a second time changes nothing,
\* whatever the mappings are.
C1_Idempotent ==
    out.op = "reapplyStoreMappings" => out.twice = out.once

\* C1 (amended): when no canonical name is listed among the variations of
\* another canonical name, applying the same mappings a second time yields the
\* transaction list of the first application.
C1_IdempotentUnchained ==
    (out.op = "reapplyStoreMappings" /\ NoChainedNames(storeMappings))
        => out.twice = out.once

C1_Witness ==
    /\ out.op = "reapplyStoreMappings"
    /\ NoChainedNames(storeMappings)
    /\ out.once # transactions
    /\ out.twice = out.once

SimilarityOfScenario == similarity(Normalize(Mayuri), Normalize(MayuriStore))

\* C6 (as stated): for the scenario's two transactions "Mayuri" and "Mayuri
\* Store" the similarity exceeds 0.8 and analyzeSimilarStores returns the one
\* grouping {canonicalName: "Mayuri", variations: ["Mayuri Store"]}.
C6_ScenarioGrouped ==
    (out.op = "analyzeSimilarStores" /\ transactions = Scenario)
        => /\ IsSimilar(SimilarityOfScenario)
           /\ out.suggestions =
                <<[canonicalName |-> Mayuri, variations |-> <<MayuriStore>>]>>

\* C6 (amended): for the scenario's two transactions the similarity of
\* "Mayuri" and "Mayuri Store" is 1 - 6/12 = 0.5, which is not above 0.8, and
\* analyzeSimilarStores returns no grouping.
C6_ScenarioNotGrouped ==
    (out.op = "analyzeSimilarStores" /\ transactions = Scenario)
        => /\ SimilarityOfScenario = [num |-> 6, den |-> 12]
           /\ ~IsSimilar(SimilarityOfScenario)
           /\ out.suggestions = <<>>

C6_Witness ==
    /\ out.op = "analyzeSimilarStores"
    /\ transactions = Scenario
    /\ out.suggestions = <<>>

Descriptions(txs) == {txs[i].description : i \in 1..Len(txs)}

\* C7: no grouping returned by analyzeSimilarStores lists its canonicalName
\* among its own variations, and every canonicalName and every variation is a
\* description of some input transaction.
C7_CanonicalNotVariation ==
    out.op = "analyzeSimilarStores" =>
        \A i \in 1..Len(out.suggestions) :
            LET g == out.suggestions[i]
            IN /\ ~Contains(g.variations, g.canonicalName)
               /\ g.canonicalName \in Descriptions(transactions)
               /\ Range(g.variations) \subseteq Descriptions(transactions)

C7_Witness ==
    /\ out.op = "analyzeSimilarStores"
    /\ \E i \in 1..Len(out.suggestions) :
          /\ Len(out.suggestions[i].variations) >= 1
          /\ out.suggestions[i].canonicalName # transactions[1].description

\* C11: splitGroup called with an empty namesToSplit does not throw; it
\* returns a new group with empty variations, the original group as it was
\* and the transactions as they were.
C11_SplitEmptySilent ==
    (out.op = "splitGroup" /\ out.variationsToSplit = <<>>)
        => /\ ~out.result.threw
           /\ out.result.newGroup.variations = <<>>
           /\ out.result.originalGroup = out.group
           /\ out.result.updatedTransactions = transactions

\* C18: the newGroup returned by mergeGroups satisfies the StoreGrouping
\* invariant for every pair of input groups, also when the two groups share
\* a name or are the same group.
C18_MergedGroupInvariant ==
    out.op = "mergeGroups" => IsStoreGrouping(out.result.newGroup)

\* the place of the first transaction that carries the description
FirstCarrier(description, txs) ==
    CHOOSE i \in 1..Len(txs) :
        /\ txs[i].description = description
        /\ \A j \in 1..(i - 1) : txs[j].description # description

\* the description is similar to no other description of the list
IsAlone(description, txs) ==
    \A other \in Descriptions(txs) \ {description} :
        ~IsSimilar(similarity(Normalize(description), Normalize(other)))

\* C21: a cluster of one member yields no grouping; in every grouping the
\* canonicalName is the member carried by the most transactions, and among
\* the members with that count it is the one found first (the seed, then the
\* members in the order of their first transaction).
C21_CanonicalMostFrequent ==
    out.op = "analyzeSimilarStores" =>
        /\ \A i \in 1..Len(out.suggestions) :
              /\ Len(out.suggestions[i].variations) >= 1
              /\ ~IsAlone(out.suggestions[i].canonicalName, transactions)
              /\ \A k \in 1..Len(out.suggestions[i].variations) :
                    \/ OccurrenceCount(out.suggestions[i].variations[k], transactions)
                          < OccurrenceCount(out.suggestions[i].canonicalName, transactions)
                    \/ /\ OccurrenceCount(out.suggestions[i].variations[k], transactions)
                             = OccurrenceCount(out.suggestions[i].canonicalName, transactions)
                       /\ FirstCarrier(out.suggestions[i].canonicalName, transactions)
                             < FirstCarrier(out.suggestions[i].variations[k], transactions)
        /\ \A description \in Descriptions(transactions) :
              IsAlone(description, transactions) =>
                 \A i \in 1..Len(out.suggestions) :
                    /\ out.suggestions[i].canonicalName # description
                    /\ ~Contains(out.suggestions[i].variations, description)

\* the seed "mayuri" occurs once, the member "Mayurii" twice: the member is
\* the canonical name
C21_Witness ==
    /\ out.op = "analyzeSimilarStores"
    /\ Len(transactions) = 3
    /\ transactions[1].description = MayuriLower
    /\ transactions[2].description = Mayurii
    /\ transactions[3].description = Mayurii
    /\ out.suggestions = <<[canonicalName |-> Mayurii, variations |-> <<MayuriLower>>]>>

\* the canonicalName and the variations of a grouping
Members(group) == {group.canonicalName} \cup Range(group.variations)

\* C29: two distinct descriptions with the same normalized form are always in
\* one StoreGrouping returned by analyzeSimilarStores, whatever else the list
\* holds and in whatever order; also when the normalized form is empty.
C29_SameNormalizedTogether ==
    out.op = "analyzeSimilarStores" =>
        \A a, b \in Descriptions(transactions) :
            (a # b /\ Normalize(a) = Normalize(b))
                => \E i \in 1..Len(out.suggestions) :
                      {a, b} \subseteq Members(out.suggestions[i])

\* C24: after any number of POST /api/stores/mappings requests the
\* session's transactions are applyStoreMappings of the transactions as
\* uploaded under the mapping posted last, and the session's storeMappings
\* are that mapping: a later mapping replaces the effect of an earlier one.
C24_LastMappingWins ==
    out.op = "postMappings" =>
        transactions = applyStoreMappings(out.uploaded, storeMappings)

----------------------------------------------------------------------------
(* Claims about AnalysisService                                            *)

Keys(mappings) == {mappings[i][1] : i \in 1..Len(mappings)}

\* the canonical name a description stands for: the key of the last entry of
\* the mappings that has the description as its key or among its variations
\* (the empty set when no entry has it)
CanonicalNames(description, mappings) ==
    LET holders == {i \in 1..Len(mappings) :
                        \/ mappings[i][1] = description
                        \/ Contains(mappings[i][2], description)}
    IN IF holders = {} THEN {}
       ELSE {mappings[CHOOSE i \in holders : \A j \in holders : j <= i][1]}

ShareNames(transaction) ==
    {transaction.shares[k].name : k \in 1..Len(transaction.shares)}

\* the conditions of the filter, dates compared as calendar days
Satisfies(transaction, fs, mappings) ==
    /\ fs.startDate # <<>> => ParseDate(transaction.date) >= ParseDate(fs.startDate)
    /\ fs.endDate # <<>> => ParseDate(transaction.date) <= ParseDate(fs.endDate)
    /\ fs.categories # <<>> => transaction.category \in Range(fs.categories)
    /\ fs.stores # <<>> =>
          CanonicalNames(transaction.description, mappings) \cap Range(fs.stores) # {}
    /\ fs.people # <<>> => ShareNames(transaction) \cap Range(fs.people) # {}

Matching(txs, fs, mappings) ==
    FilterIdx(txs, {i \in 1..Len(txs) : Satisfies(txs[i], fs, mappings)}, 1)

CostOf(txs, chosen) ==
    LET picked == FilterIdx(txs, chosen, 1)
    IN SumSeq([k \in 1..Len(picked) |-> picked[k].cost])

\* the date lies in the day, the week of seven days starting at the label, or
\* the month that the label names
InBucket(date, label, interval) ==
    IF interval = "day" THEN date = label
    ELSE IF interval = "month"
         THEN /\ Len(label) = 7
              /\ CivilFromDays(ParseDate(date)).y = ParseDigits(SubSeq(label, 1, 4), 0)
              /\ CivilFromDays(ParseDate(date)).m = ParseDigits(SubSeq(label, 6, 7), 0)
    ELSE /\ Len(label) = 10
         /\ ParseDate(label) <= ParseDate(date)
         /\ ParseDate(date) <= ParseDate(label) + 6

RECURSIVE Flatten(_)
Flatten(pages) ==
    IF pages = <<>> THEN <<>> ELSE pages[1].transactions \o Flatten(Tail(pages))

\* a transaction as listed: its description replaced by its canonical name
Listed(transaction, mappings) ==
    LET names == CanonicalNames(transaction.description, mappings)
    IN IF names = {} THEN transaction
       ELSE [transaction EXCEPT !.description = CHOOSE c \in names : TRUE]

\* C3: the pages 1..ceil(total/pageSize) of getDetailedTransactions, one after
\* the other, are the filtered transactions, each once and in their order (as
\* listed, under their canonical names); later pages are empty; every page
\* reports the filtered count as total.
C3_Pagination ==
    out.op = "getDetailedTransactions" =>
        LET filtered == Matching(transactions, filters, storeMappings)
            last == PageCount(Len(filtered), out.pageSize)
        IN /\ \A p \in 1..Len(out.pages) : out.pages[p].total = Len(filtered)
           /\ \A p \in 1..Len(out.pages) : p > last => out.pages[p].transactions = <<>>
           /\ Len(out.pages) >= last =>
                 Flatten(SubSeq(out.pages, 1, last))
                     = [i \in 1..Len(filtered) |-> Listed(filtered[i], storeMappings)]

C3_Witness ==
    /\ out.op = "getDetailedTransactions"
    /\ out.pageSize = 1
    /\ Len(out.pages) = 3
    /\ out.pages[1].total = 2
    /\ out.pages[3].transactions = <<>>
    /\ out.pages[2].transactions # <<transactions[2]>>
    /\ filters.stores # <<>>

\* C8: filterTransactions returns, in the original order, exactly the
\* transactions that satisfy every condition that is set: the date range, the
\* categories, the stores (by canonical name; a description that is not in the
\* mappings fails) and the people.
C8_FilterExact ==
    out.op = "filterTransactions" =>
        out.filtered = Matching(transactions, filters, storeMappings)

C8_Witness ==
    /\ out.op = "filterTransactions"
    /\ filters.stores # <<>>
    /\ Len(transactions) = 2
    /\ out.filtered = <<transactions[2]>>
    /\ CanonicalNames(transactions[1].description, storeMappings) = {}
    /\ transactions[2].description \notin Keys(storeMappings)

StoresAllAbsent ==
    /\ filters.stores # <<>>
    /\ Range(filters.stores) \cap Keys(storeMappings) = {}

\* C9: with a stores filter none of whose values is a canonical name of the
\* mappings, getSpendingOverTime and getSpendingBy return no entry and
\* getDetailedTransactions returns empty pages with total 0.
C9_AbsentStoreEmpty ==
    StoresAllAbsent =>
        /\ out.op \in {"getSpendingOverTime", "getSpendingBy"} => out.data = <<>>
        /\ out.op = "getDetailedTransactions" =>
              \A p \in 1..Len(out.pages) :
                  out.pages[p] = [transactions |-> <<>>, total |-> 0]

C9_Witness ==
    /\ StoresAllAbsent
    /\ out.op = "getSpendingBy"
    /\ out.data = <<>>
    /\ \E i \in 1..Len(transactions) :
          transactions[i].description \in Range(filters.stores)

\* C10: for dimension 'store' every label of getSpendingBy is a key of the
\* mappings, labels are not repeated, a label's amount is the sum of cost of
\* the filtered transactions whose description stands for that canonical name,
\* and every canonical name some filtered transaction stands for is a label; a
\* description that is not in the mappings adds to no label.
C10_StoreLabels ==
    (out.op = "getSpendingBy" /\ out.dimension = "store") =>
        LET filtered == Matching(transactions, filters, storeMappings)
            standsFor(k) == CanonicalNames(filtered[k].description, storeMappings)
        IN /\ \A i \in 1..Len(out.data) :
                 /\ out.data[i].label \in Keys(storeMappings)
                 /\ \A j \in 1..Len(out.data) : i # j => out.data[i].label # out.data[j].label
                 /\ out.data[i].amount =
                        CostOf(filtered, {k \in 1..Len(filtered) :
                                            standsFor(k) = {out.data[i].label}})
           /\ \A k \in 1..Len(filtered) :
                 standsFor(k) \subseteq {out.data[i].label : i \in 1..Len(out.data)}

C10_Witness ==
    /\ out.op = "getSpendingBy"
    /\ out.dimension = "store"
    /\ filters = NoFilters
    /\ Len(transactions) = 2
    /\ Len(out.data) = 1
    /\ out.data[1].label # transactions[1].description
    /\ out.data[1].amount = transactions[1].cost
    /\ CanonicalNames(transactions[2].description, storeMappings) = {}

----------------------------------------------------------------------------
(* Claims about AdvancedAnalyticsService                                   *)

\* every share of every transaction, as <<transaction index, share index>>
AllShares(txs) ==
    UNION {{<<i, k>> : k \in 1..Len(txs[i].shares)} : i \in 1..Len(txs)}

RECURSIVE SumAmounts(_, _)
SumAmounts(txs, places) ==
    IF places = {} THEN 0
    ELSE LET at == CHOOSE q \in places : TRUE
         IN txs[at[1]].shares[at[2]].amount + SumAmounts(txs, places \ {at})

\* C4: currentBalance of getBalanceAnalytics has one entry for each person
\* named in some share, and no other, and the entry of person p is the sum of
\* the amount of every share named p.
C4_CurrentBalance ==
    out.op = "getBalanceAnalytics" =>
        LET current == out.balance.currentBalance
            people == {transactions[at[1]].shares[at[2]].name : at \in AllShares(transactions)}
        IN /\ {current[i][1] : i \in 1..Len(current)} = people
           /\ Len(current) = Cardinality(people)
           /\ \A i \in 1..Len(current) :
                 current[i][2] = SumAmounts(transactions,
                     {at \in AllShares(transactions) :
                         transactions[at[1]].shares[at[2]].name = current[i][1]})

C4_Witness ==
    /\ out.op = "getBalanceAnalytics"
    /\ Len(out.balance.currentBalance) = 3
    /\ \E i \in 1..3 : out.balance.currentBalance[i] = <<"A", 90>>
    /\ \E i \in 1..3 : out.balance.currentBalance[i] = <<"B", -50>>

PlaceDate(txs, at) == txs[at[1]].date

PlaceName(txs, at) == txs[at[1]].shares[at[2]].name

\* the share at place a is processed before the share at place b: earlier
\* date first, equal dates in input order, shares in their order
PlaceBefore(txs, a, b) ==
    \/ LexLess(PlaceDate(txs, a), PlaceDate(txs, b))
    \/ PlaceDate(txs, a) = PlaceDate(txs, b) /\ a[1] < b[1]
    \/ a[1] = b[1] /\ a[2] < b[2]

\* position of a share in the chronological walk
PlaceRank(txs, at) ==
    1 + Cardinality({b \in AllShares(txs) : PlaceBefore(txs, b, at)})

\* the person's balance once the share at place `at` has been added
RunningBalance(txs, at) ==
    SumAmounts(txs, {b \in AllShares(txs) :
                        /\ PlaceName(txs, b) = PlaceName(txs, at)
                        /\ (b = at \/ PlaceBefore(txs, b, at))})

\* C16: balanceHistory of getBalanceAnalytics is chronological (dates never
\* decrease, transactions of one date stay in input order) for every input
\* order, it has one entry per share, and each person's last entry carries
\* that person's currentBalance.
C16_HistoryChronological ==
    out.op = "getBalanceAnalytics" =>
        LET history == out.balance.balanceHistory
            current == out.balance.currentBalance
        IN /\ Len(history) = Cardinality(AllShares(transactions))
           /\ \A i, j \in 1..Len(history) :
                 i < j => ~LexLess(history[j].date, history[i].date)
           /\ \A at \in AllShares(transactions) :
                 /\ history[PlaceRank(transactions, at)].date = PlaceDate(transactions, at)
                 /\ history[PlaceRank(transactions, at)].person = PlaceName(transactions, at)
           /\ \A c \in 1..Len(current) :
                 \E i \in 1..Len(history) :
                     /\ history[i].person = current[c][1]
                     /\ history[i].balance = current[c][2]
                     /\ \A j \in (i + 1)..Len(history) : history[j].person # current[c][1]

\* three transactions handed over out of date order, two of them on one date
C16_Witness ==
    /\ out.op = "getBalanceAnalytics"
    /\ Len(transactions) = 3
    /\ LexLess(transactions[2].date, transactions[1].date)
    /\ transactions[1].date = transactions[3].date
    /\ transactions[1].shares # transactions[3].shares
    /\ Len(out.balance.balanceHistory) >= 4

MonthOf(date) == SubSeq(date, 1, 7)

PlacesOfMonth(txs, month) ==
    {at \in AllShares(txs) : MonthOf(PlaceDate(txs, at)) = month}

RECURSIVE SumAbsAmounts(_, _)
SumAbsAmounts(txs, places) ==
    IF places = {} THEN 0
    ELSE LET at == CHOOSE q \in places : TRUE
         IN Abs(txs[at[1]].shares[at[2]].amount) + SumAbsAmounts(txs, places \ {at})

\* the sum over the people of |net amount of the person's shares in the month|
RECURSIVE SumAbsNet(_, _, _)
SumAbsNet(txs, people, month) ==
    IF people = {} THEN 0
    ELSE LET person == CHOOSE q \in people : TRUE
         IN Abs(SumAmounts(txs, {at \in PlacesOfMonth(txs, month) :
                                    PlaceName(txs, at) = person}))
            + SumAbsNet(txs, people \ {person}, month)

\* one entry per month that has a transaction, ascending by month
MonthsAscending(txs, changes) ==
    /\ {changes[i].month : i \in 1..Len(changes)} =
           {MonthOf(txs[i].date) : i \in 1..Len(txs)}
    /\ \A i, j \in 1..Len(changes) :
           i < j => LexLess(changes[i].month, changes[j].month)

\* C19 (as stated): every month's change in monthlyBalanceChange is the sum of
\* |amount| over every share of every transaction of that month, and the list
\* is ascending by month.
C19_MonthlyGross ==
    out.op = "getBalanceAnalytics" =>
        LET changes == out.balance.monthlyBalanceChange
        IN /\ MonthsAscending(transactions, changes)
           /\ \A i \in 1..Len(changes) :
                 changes[i].change =
                     SumAbsAmounts(transactions,
                                   PlacesOfMonth(transactions, changes[i].month))

\* C19 (amended): every month's change in monthlyBalanceChange is the sum,
\* over the people, of the absolute value of the person's net amount in that
\* month, and the list is ascending by month.
C19_MonthlyNetPerPerson ==
    out.op = "getBalanceAnalytics" =>
        LET changes == out.balance.monthlyBalanceChange
        IN /\ MonthsAscending(transactions, changes)
           /\ \A i \in 1..Len(changes) :
                 changes[i].change =
                     SumAbsNet(transactions,
                               {PlaceName(transactions, at) : at \in AllShares(transactions)},
                               changes[i].month)

\* one person with shares of opposite sign in one month, and a second month
C19_Witness ==
    /\ out.op = "getBalanceAnalytics"
    /\ Len(out.balance.monthlyBalanceChange) = 2
    /\ \E i \in 1..Len(transactions) :
           /\ Len(transactions[i].shares) = 2
           /\ transactions[i].shares[1].name = transactions[i].shares[2].name
           /\ transactions[i].shares[1].amount < 0
           /\ transactions[i].shares[2].amount > 0

\* the largest |running balance| over all shares
MaxRunning(txs) ==
    CHOOSE m \in {Abs(RunningBalance(txs, at)) : at \in AllShares(txs)} :
        \A at \in AllShares(txs) : Abs(RunningBalance(txs, at)) <= m

\* the earliest date on which some running balance reaches MaxRunning
MaxRunningDate(txs) ==
    CHOOSE date \in {PlaceDate(txs, at) : at \in AllShares(txs)} :
        /\ \E at \in AllShares(txs) :
               PlaceDate(txs, at) = date /\ Abs(RunningBalance(txs, at)) = MaxRunning(txs)
        /\ \A at \in AllShares(txs) :
               Abs(RunningBalance(txs, at)) = MaxRunning(txs)
                   => ~LexLess(PlaceDate(txs, at), date)

SingleDayOfMaximum(txs, period) ==
    /\ period.start = MaxRunningDate(txs)
    /\ period.end = MaxRunningDate(txs)
    /\ period.maxImbalance = MaxRunning(txs)

StoreOf(description, mappings) ==
    IF CanonicalNames(description, mappings) = {} THEN description
    ELSE CHOOSE c \in CanonicalNames(description, mappings) : TRUE

\* C15: the visitFrequency of a store in getStoreAnalytics is the number of
\* distinct dates on which the (canonical) store was visited: two transactions
\* at the store on one date count as one visit.
C15_VisitsUniqueDates ==
    out.op = "getStoreAnalytics" =>
        \A i \in 1..Len(out.stores) :
            out.stores[i].visitFrequency =
                Cardinality({transactions[k].date : k \in
                    {k \in 1..Len(transactions) :
                        StoreOf(transactions[k].description, storeMappings)
                            = out.stores[i].storeName}})

\* the months in which the category has a transaction
MonthsOfCategory(txs, category) ==
    {MonthOf(txs[i].date) : i \in {i \in 1..Len(txs) : txs[i].category = category}}

\* the cost of the category in the months that have at least `from` and fewer
\* than `to` later months of the category after them
CostOfMonthsFromEnd(txs, category, from, to) ==
    LET months == MonthsOfCategory(txs, category)
        later(m) == Cardinality({n \in months : LexLess(m, n)})
    IN CostOf(txs, {i \in 1..Len(txs) :
                       /\ txs[i].category = category
                       /\ later(MonthOf(txs[i].date)) >= from
                       /\ later(MonthOf(txs[i].date)) < to})

\* rate is the percent change from `previous` to `recent`
IsPercentChange(rate, recent, previous) ==
    /\ previous # 0
    /\ rate.num * previous = (recent - previous) * 100 * rate.den

\* C17 (as stated): growthRate is 0 for a category with fewer than 6 monthly
\* buckets; with 6 or more it is the percent change of the average of the last
\* 3 monthly amounts against the average of the 3 before them.
C17_GrowthRate ==
    out.op = "getCategoryTrends" =>
        \A i \in 1..Len(out.trends) :
            LET category == out.trends[i].category
            IN IF Cardinality(MonthsOfCategory(transactions, category)) < 6
               THEN out.trends[i].growthRate.num = 0
               ELSE IsPercentChange(out.trends[i].growthRate,
                        CostOfMonthsFromEnd(transactions, category, 0, 3),
                        CostOfMonthsFromEnd(transactions, category, 3, 6))

\* C17 (amended): growthRate is 0 for a category with fewer than 6 monthly
\* buckets, and also when the 3 months before the last 3 have an average that
\* is not positive; otherwise it is the percent change of the average of the
\* last 3 monthly amounts against the average of the 3 before them.
C17_GrowthRateGuarded ==
    out.op = "getCategoryTrends" =>
        \A i \in 1..Len(out.trends) :
            LET category == out.trends[i].category
            IN IF \/ Cardinality(MonthsOfCategory(transactions, category)) < 6
                  \/ CostOfMonthsFromEnd(transactions, category, 3, 6) <= 0
               THEN out.trends[i].growthRate.num = 0
               ELSE IsPercentChange(out.trends[i].growthRate,
                        CostOfMonthsFromEnd(transactions, category, 0, 3),
                        CostOfMonthsFromEnd(transactions, category, 3, 6))

\* six months handed over latest first: 30 in the first three, 60 in the last
\* three, a growth of 100 percent
C17_Witness ==
    /\ out.op = "getCategoryTrends"
    /\ Len(transactions) = 6
    /\ transactions[1].date = MonthDate(6)
    /\ Len(out.trends) = 1
    /\ Len(out.trends[1].monthlySpend) = 6
    /\ out.trends[1].growthRate = [num |-> 3000, den |-> 30]

InUnitInterval(x) == ~x.nan /\ 0 <= x.value /\ x.value <= ConfidenceUnit

\* C5: every confidence returned by getBudgetIntelligence, in
\* categoryRecommendations and in predictedNextMonthSpending, is a number
\* within [0, 1].
C5_ConfidenceInRange ==
    out.op = "getBudgetIntelligence" =>
        /\ \A i \in 1..Len(out.budget.categoryRecommendations) :
              InUnitInterval(out.budget.categoryRecommendations[i].confidence)
        /\ \A i \in 1..Len(out.budget.predictedNextMonthSpending) :
              InUnitInterval(out.budget.predictedNextMonthSpending[i].confidence)

\* the trend of the rule: recent and older are the sums of two monthly
\* amounts each, so their means compare as the sums do
TrendByRule(recent, older) ==
    IF 10 * recent > 11 * older THEN "increasing"
    ELSE IF 10 * recent < 9 * older THEN "decreasing"
    ELSE "stable"

\* every month of the category has the same, positive sum of costs
EqualPositiveMonths(txs, category) ==
    \A m, n \in MonthsOfCategory(txs, category) :
        /\ CostOf(txs, {i \in 1..Len(txs) :
                           txs[i].category = category /\ MonthOf(txs[i].date) = m}) > 0
        /\ CostOf(txs, {i \in 1..Len(txs) :
                           txs[i].category = category /\ MonthOf(txs[i].date) = m})
              = CostOf(txs, {i \in 1..Len(txs) :
                                txs[i].category = category /\ MonthOf(txs[i].date) = n})

\* C22: with fewer than 3 months of a category its trend is 'stable'; with
\* the two months before the last two at hand, the trend is 'increasing' when
\* the mean of the last 2 monthly sums exceeds 1.1 times the mean of those
\* two, 'decreasing' when it is below 0.9 times it, 'stable' otherwise; a
\* category with 3 or more months of equal, positive sums is 'stable'.
C22_Trend ==
    out.op = "getBudgetIntelligence" =>
        \A i \in 1..Len(out.budget.categoryRecommendations) :
            LET category == out.budget.categoryRecommendations[i].category
                trend == out.budget.categoryRecommendations[i].trend
                months == Cardinality(MonthsOfCategory(transactions, category))
            IN /\ months < 3 => trend = "stable"
               /\ months >= 4 =>
                     trend = TrendByRule(CostOfMonthsFromEnd(transactions, category, 0, 2),
                                         CostOfMonthsFromEnd(transactions, category, 2, 4))
               /\ (months >= 3 /\ EqualPositiveMonths(transactions, category))
                     => trend = "stable"

\* the places of the transactions of the category of txs[i]
SameCategory(txs, i) == {j \in 1..Len(txs) : txs[j].category = txs[i].category}

\* the square of the distance of txs[i].cost from the mean of its category,
\* and the variance of the category, both multiplied by the square of the
\* number n of its transactions: (n * cost - S)^2 and n * Q - S^2, for the
\* sum S of the costs and the sum Q of their squares
DistanceSquared(txs, i) ==
    (Cardinality(SameCategory(txs, i)) * txs[i].cost - CostOf(txs, SameCategory(txs, i)))
  * (Cardinality(SameCategory(txs, i)) * txs[i].cost - CostOf(txs, SameCategory(txs, i)))

RECURSIVE SumOfSquares(_, _)
SumOfSquares(txs, places) ==
    IF places = {} THEN 0
    ELSE LET i == CHOOSE i \in places : TRUE
         IN txs[i].cost * txs[i].cost + SumOfSquares(txs, places \ {i})

VarianceScaled(txs, i) ==
    Cardinality(SameCategory(txs, i)) * SumOfSquares(txs, SameCategory(txs, i))
  - CostOf(txs, SameCategory(txs, i)) * CostOf(txs, SameCategory(txs, i))

\* txs[i] is one of at least 5 transactions of its category and its cost is
\* more than 2 standard deviations from their mean
IsOutlier(txs, i) ==
    /\ Cardinality(SameCategory(txs, i)) >= 5
    /\ DistanceSquared(txs, i) > 4 * VarianceScaled(txs, i)

Outliers(txs) == {i \in 1..Len(txs) : IsOutlier(txs, i)}

\* score(i) < score(j) for two outliers, by their squares
ScoresBelow(txs, i, j) ==
    DistanceSquared(txs, i) * VarianceScaled(txs, j)
        < DistanceSquared(txs, j) * VarianceScaled(txs, i)

\* C23: the anomalies of getBudgetIntelligence are at most 10, in descending
\* order of score, each the transaction of an outlier (one of at least 5
\* transactions of its category, more than 2 population standard deviations
\* from their mean cost); every outlier is returned, except that beyond 10
\* outliers the ones left out score no higher than any that is returned.
C23_Anomalies ==
    out.op = "getBudgetIntelligence" =>
        LET anomalies == out.budget.anomalies
            returned(t) == Cardinality({k \in 1..Len(anomalies) : anomalies[k].transaction = t})
            flagged(t) == Cardinality({i \in Outliers(transactions) : transactions[i] = t})
        IN /\ Len(anomalies) <= 10
           /\ Len(anomalies) = Min2(10, Cardinality(Outliers(transactions)))
           /\ \A k \in 1..(Len(anomalies) - 1) :
                 ~RatLess(anomalies[k].scoreSquared, anomalies[k + 1].scoreSquared)
           /\ \A k \in 1..Len(anomalies) :
                 \E i \in Outliers(transactions) :
                    /\ anomalies[k].transaction = transactions[i]
                    /\ anomalies[k].scoreSquared.num * VarianceScaled(transactions, i)
                          = DistanceSquared(transactions, i) * anomalies[k].scoreSquared.den
           /\ \A i \in Outliers(transactions) :
                 \/ returned(transactions[i]) = flagged(transactions[i])
                 \/ /\ Len(anomalies) = 10
                    /\ \A k \in 1..Len(anomalies) :
                          \E j \in Outliers(transactions) :
                             /\ anomalies[k].transaction = transactions[j]
                             /\ ~ScoresBelow(transactions, j, i)

\* eleven outliers in eleven categories: ten are returned
C23_Witness ==
    /\ out.op = "getBudgetIntelligence"
    /\ Cardinality(Outliers(transactions)) > 10
    /\ Len(out.budget.anomalies) = 10
    /\ RatLess(out.budget.anomalies[10].scoreSquared, out.budget.anomalies[1].scoreSquared)

\* the list with its transactions in the order given by the permutation p
Reordered(txs, p) == [i \in 1..Len(txs) |-> txs[p[i]]]

\* C30: the categoryRecommendations and predictedNextMonthSpending of
\* getBudgetIntelligence are the same for every order of the transactions:
\* each category has the same trend, confidence, suggestedBudget and
\* predictedAmount whichever permutation of the list is handed over.
C30_OrderIndependent ==
    out.op = "getBudgetIntelligence" =>
        \A p \in Permutations(1..Len(transactions)) :
            LET other == getBudgetIntelligence(Reordered(transactions, p))
            IN /\ Range(other.categoryRecommendations)
                     = Range(out.budget.categoryRecommendations)
               /\ Range(other.predictedNextMonthSpending)
                     = Range(out.budget.predictedNextMonthSpending)

----------------------------------------------------------------------------
(* Claims about every entry point                                          *)

\* C12: every entry point catches an exception raised during its computation
\* and returns its default result; no call ends by throwing.
C12_NoExceptionPropagates == pc = "done" => ~out.outcome.threw

\* no transaction satisfies the filter (the empty list included)
NothingMatches ==
    \A i \in 1..Len(transactions) : ~Satisfies(transactions[i], filters, storeMappings)

\* no transaction lies in the date range handed to getSpendingHeatmap
NothingInRange(dateRange) ==
    \A i \in 1..Len(transactions) :
        /\ dateRange # <<>>
        /\ \/ LexLess(transactions[i].date, dateRange.start)
           \/ LexLess(dateRange.end, transactions[i].date)

\* C13: on an empty transaction list, or with a filter that matches nothing,
\* every aggregation returns its empty result and does not throw: [] from
\* getSpendingOverTime, getSpendingBy, getPaymentPatterns, getStoreAnalytics,
\* getCategoryTrends, getSpendingHeatmap and analyzeSimilarStores, an empty
\* page with total 0 from getDetailedTransactions, empty maps with
\* maxImbalance 0 from getBalanceAnalytics, three empty lists from
\* getBudgetIntelligence.
C13_EmptyInput ==
    pc = "done" =>
        /\ (out.op \in {"getSpendingOverTime", "getSpendingBy"} /\ NothingMatches)
              => out.outcome = [threw |-> FALSE, result |-> <<>>]
        /\ (out.op = "getDetailedTransactions" /\ NothingMatches)
              => out.outcome = [threw |-> FALSE,
                                result |-> [transactions |-> <<>>, total |-> 0]]
        /\ (out.op \in {"getPaymentPatterns", "getStoreAnalytics",
                        "getCategoryTrends", "analyzeSimilarStores"}
                /\ transactions = <<>>)
              => out.outcome = [threw |-> FALSE, result |-> <<>>]
        /\ (out.op = "getSpendingHeatmap" /\ NothingInRange(out.dateRange))
              => out.outcome = [threw |-> FALSE, result |-> <<>>]
        /\ (out.op = "getBalanceAnalytics" /\ transactions = <<>>)
              => out.outcome =
                     [threw |-> FALSE,
                      result |->
                          [currentBalance |-> <<>>, balanceHistory |-> <<>>,
                           monthlyBalanceChange |-> <<>>, paymentFrequency |-> <<>>,
                           largestImbalancePeriod |->
                               [start |-> <<>>, end |-> <<>>, maxImbalance |-> 0]]]
        /\ (out.op = "getBudgetIntelligence" /\ transactions = <<>>)
              => out.outcome =
                     [threw |-> FALSE,
                      result |-> [categoryRecommendations |-> <<>>, anomalies |-> <<>>,
                                  predictedNextMonthSpending |-> <<>>]]

\* getSpendingBy on two transactions, none of which the filter lets through
C13_Witness ==
    /\ pc = "done"
    /\ out.op = "getSpendingBy"
    /\ Len(transactions) = 2
    /\ NothingMatches
    /\ out.outcome.result = <<>>

PersonTotals(data) == {<<data[i].label, data[i].amount>> : i \in 1..Len(data)}

BalanceTotals(currentBalance) ==
    {<<currentBalance[i][1], currentBalance[i][2]>> : i \in 1..Len(currentBalance)}

----------------------------------------------------------------------------
(* Claims about the dashboard                                              *)

\* no loadDashboardData call is running and no page request is in flight
DashboardSettled == out.calls = <<>> /\ out.pageRequests = <<>>

\* C25: once every request of the overlapping loadDashboardData calls has
\* completed, the timeline, category, store and transaction-list states hold
\* the data of the filters selected last, in whatever order the responses
\* arrived.
C25_LatestFiltersShown ==
    (out.op = "dashboard" /\ DashboardSettled /\ out.pageChanges = 0) =>
        /\ out.timelineData
              = getSpendingOverTime(transactions, filters, storeMappings, "day", tz)
        /\ out.categoryData = getSpendingBy(transactions, filters, storeMappings, "category")
        /\ out.storeData = getSpendingBy(transactions, filters, storeMappings, "store")
        /\ out.rows = getDetailedTransactions(transactions, filters, storeMappings,
                                              1, DashboardPageSize).transactions
        /\ out.total = Len(filterTransactions(transactions, filters, storeMappings))

\* C26: after filter changes and page changes, with no two loadDashboardData
\* calls overlapping, the rows of the table are a page of the transactions
\* that match the selected filters, and the total is their number.
C26_RowsMatchFilters ==
    (out.op = "dashboard" /\ DashboardSettled /\ out.filterChanges <= 1) =>
        /\ out.total = Len(filterTransactions(transactions, filters, storeMappings))
        /\ \E page \in 1..(Len(transactions) + 1), pageSize \in RowsPerPageOptions :
              out.rows = getDetailedTransactions(transactions, filters, storeMappings,
                                                 page, pageSize).transactions

----------------------------------------------------------------------------
(* Claims about the RefineDataPage                                         *)

CanonicalNamesDistinct(groups) ==
    \A g, h \in 1..Len(groups) :
        groups[g].canonicalName = groups[h].canonicalName => g = h

\* C27: whatever was renamed, removed, deleted, merged and split since the
\* suggestions were loaded, the canonical names of the groups on the page are
\* pairwise distinct, and the mappings that handleSave has posted hold one
\* entry for each group, with the group's variations.
C27_OneEntryPerGroup ==
    (pc \in {"refine", "saved"}) =>
        /\ CanonicalNamesDistinct(out.groups)
        /\ pc = "saved" =>
              /\ Len(storeMappings) = Len(out.groups)
              /\ \A g \in 1..Len(out.groups) :
                    /\ HasKey(storeMappings, out.groups[g].canonicalName)
                    /\ MapGet(storeMappings, out.groups[g].canonicalName)
                           = out.groups[g].variations

====
